---- MODULE Spec2Model ----
(***************************************************************************)
(* Inventory reconciliation (SyncManager.sync_all), its two callers        *)
(* (auto_sync_worker, trigger_firewall_sync) and the object resolver       *)
(* (resolve_object_content) of net-ops-v3.                                 *)
(***************************************************************************)
EXTENDS Integers, Sequences, FiniteSets, Bags, TLC

VARIABLES
    store,           \* committed content of the SQLite inventory
    sess,            \* per caller: the transaction's working copy (db_sql.session)
    pc,              \* per caller: position inside the caller / sync_all
    snap,            \* per caller: fw_config handed to sync_all
    ret,             \* per caller: value returned by the last sync_all
    sync_lock,       \* SyncManager._sync_lock
    last_sync_time,  \* SyncManager._last_sync_time
    calls,           \* number of sync_all calls started so far
    pool,            \* configurations the device may return
    entry,           \* per caller: the store when the call started, whether no
                     \* other call has committed since, and how phase 5 went
    path,            \* per caller: how the current call left sync_all
    okHist,          \* the successful resyncs so far, oldest first
    resObj,          \* resolver: the entity last resolved (table and id)
    resOut,          \* resolver: what the call returned
    reqs,            \* the ObjectRequest, RuleRequest and AuditLog tables
    appr,            \* the last approval call of a pending request: the request,
                     \* the outcome and the objects linked
    approving,       \* approval calls under way, one per request thread, and the
                     \* create calls the device has received
    look             \* the last lookup of the policy match: its input and answer

vars == <<store, sess, pc, snap, ret, sync_lock, last_sync_time, calls,
          pool, entry, path, okHist, resObj, resOut, reqs, appr, approving, look>>

-----------------------------------------------------------------------------
(* Bounds of the model *)

\* sync_all calls started in one behaviour
MaxCalls == 3
\* length of a reference list (group members, rule sources, ...) of a snapshot
MaxRefs == 2
\* entities of an inventory handed to the resolver
MaxObjs == 3

-----------------------------------------------------------------------------
(* Python values: None, str, list of str *)

None_ == [t |-> "none", v |-> <<>>]
Str(s) == [t |-> "str", v |-> <<s>>]
List(q) == [t |-> "list", v |-> q]

\* truth value of a Python object (None, "" and [] are falsy)
Truthy(x) ==
    CASE x.t = "none" -> FALSE
      [] x.t = "str" -> x.v[1] # ""
      [] x.t = "list" -> Len(x.v) > 0

\* dict.get(key): None when the key is missing
Get(item, key) == IF key \in DOMAIN item THEN item[key] ELSE None_

\* a or b
Or(a, b) == IF Truthy(a) THEN a ELSE b

\* str.lower() on the strings of the model
Lower(s) ==
    CASE s = "N1" -> "n1"
      [] s = "N2" -> "n2"
      [] s = "G1" -> "g1"
      [] s = "R1" -> "r1"
      [] s = "ANY" -> "any"
      [] s = "Any" -> "any"
      [] OTHER -> s

\* the name of a record as a string ("" when missing or None)
NameOf(item) == LET n == Get(item, "name") IN IF n.t = "str" THEN n.v[1] ELSE ""

\* set(x) of a list of strings
SeqToSet(q) == {q[i] : i \in DOMAIN q}

Max(S) == CHOOSE x \in S : \A y \in S : y <= x

-----------------------------------------------------------------------------
(* The inventory store *)

EmptyDB ==
    [addr |-> {}, svc |-> {}, rule |-> {},
     agm |-> EmptyBag, rsm |-> EmptyBag, rdm |-> EmptyBag, rvm |-> EmptyBag,
     iface |-> {}]

\* id given to a row on flush: one more than the largest id of the table
NextId(tbl) == Max({r.id : r \in tbl} \cup {0}) + 1

\* insert of one association row; the tables carry no uniqueness constraint
InsertRow(tbl, row) == tbl (+) SetToBag({row})

\* dict.get on a name -> id map: 0 stands for None
MapGet(map, key) == IF key \in DOMAIN map THEN map[key] ELSE 0

EmptyMap == [x \in {} |-> 0]

\* str(x)
PyStr(x) ==
    CASE x.t = "str" -> x.v[1]
      [] x.t = "none" -> "None"
      [] x.t = "list" -> "[list]"

\* dict.get(key, default): the default only when the key is missing
GetD(item, key, default) == IF key \in DOMAIN item THEN item[key] ELSE default

-----------------------------------------------------------------------------
(* Phase 1: wipe *)

\* the four association tables are emptied
WipeLinks(db) ==
    [db EXCEPT !.agm = EmptyBag, !.rsm = EmptyBag, !.rdm = EmptyBag, !.rvm = EmptyBag]

\* variant: the AddressObject rows are not deleted
WipeEntitiesKeepsAddresses(db) == [db EXCEPT !.rule = {}, !.svc = {}]

\* variant: the ServiceObject rows are not deleted
WipeEntitiesKeepsServices(db) == [db EXCEPT !.rule = {}, !.addr = {}]

\* then SecurityRule, AddressObject and ServiceObject
WipeEntities(db) == [db EXCEPT !.rule = {}, !.addr = {}, !.svc = {}]

Wipe(db) == WipeEntities(WipeLinks(db))

\* variant: the entity rows are deleted before the association tables
WipeOrderEntitiesFirst == <<"rule", "addr", "svc", "agm", "rsm", "rdm", "rvm">>

\* the deletes of phase 1 in the order the code issues them
WipeOrder == <<"agm", "rsm", "rdm", "rvm", "rule", "addr", "svc">>

\* the session after the first k deletes of phase 1
RECURSIVE WipePrefix(_, _)
WipePrefix(db, k) ==
    IF k = 0 THEN db
    ELSE LET t == WipeOrder[k]
         IN  [WipePrefix(db, k - 1) EXCEPT
                 ![t] = IF t \in {"rule", "addr", "svc"} THEN {} ELSE EmptyBag]

-----------------------------------------------------------------------------
(* Phase 2: leaf objects *)

\* variant: the range keys are read before the netmask keys
AddressValueRangeFirst(item) ==
    LET val == Or(Get(item, "ip-range"), Or(Get(item, "ip_range"),
               Or(Get(item, "ip-netmask"), Or(Get(item, "ip_netmask"),
               Or(Get(item, "fqdn"), Or(Get(item, "value"), Str("any")))))))
    IN  IF val.t = "list" /\ Len(val.v) > 0 THEN val.v[1] ELSE PyStr(val)

\* the value stored for an address record
AddressValue(item) ==
    LET val == Or(Get(item, "ip-netmask"), Or(Get(item, "ip_netmask"),
               Or(Get(item, "ip-range"), Or(Get(item, "ip_range"),
               Or(Get(item, "fqdn"), Or(Get(item, "value"), Str("any")))))))
    IN  IF val.t = "list" /\ Len(val.v) > 0 THEN val.v[1] ELSE PyStr(val)

\* variant: the name is looked up as it is written
SkipNameExactCase(name, taken) == name = "" \/ name \in taken

\* records without a name or with a name already taken are skipped
SkipName(name, taken) == name = "" \/ Lower(name) \in taken

RECURSIVE AddrLoop(_, _, _, _)
AddrLoop(addr_list, i, tbl, name_to_id) ==
    IF i > Len(addr_list) THEN [tbl |-> tbl, map |-> name_to_id]
    ELSE LET item == addr_list[i]
             name == NameOf(item)
         IN  IF SkipName(name, DOMAIN name_to_id)
             THEN AddrLoop(addr_list, i + 1, tbl, name_to_id)
             ELSE LET obj == [id |-> NextId(tbl), name |-> name, type |-> "host",
                              value |-> AddressValue(item), is_group |-> FALSE]
                  IN  AddrLoop(addr_list, i + 1, tbl \cup {obj},
                               name_to_id @@ (Lower(name) :> obj.id))

sync_address_objects(tbl, addr_list) == AddrLoop(addr_list, 1, tbl, EmptyMap)

RECURSIVE SvcLoop(_, _, _, _)
SvcLoop(svc_list, i, tbl, name_to_id) ==
    IF i > Len(svc_list) THEN [tbl |-> tbl, map |-> name_to_id]
    ELSE LET item == svc_list[i]
             name == NameOf(item)
             port_val == Or(Get(item, "destination-port"),
                         Or(Get(item, "destination_port"), Str("any")))
         IN  IF SkipName(name, DOMAIN name_to_id)
             THEN SvcLoop(svc_list, i + 1, tbl, name_to_id)
             ELSE LET obj == [id |-> NextId(tbl), name |-> name,
                              protocol |-> PyStr(GetD(item, "protocol", Str("tcp"))),
                              port |-> PyStr(port_val)]
                  IN  SvcLoop(svc_list, i + 1, tbl \cup {obj},
                              name_to_id @@ (Lower(name) :> obj.id))

sync_service_objects(tbl, svc_list) == SvcLoop(svc_list, 1, tbl, EmptyMap)

-----------------------------------------------------------------------------
(* Phase 3: address groups *)

\* variant: the row of a group is inserted as a leaf
PlaceholderAsLeaf(id, name) ==
    [id |-> id, name |-> name, type |-> "group", value |-> "group", is_group |-> FALSE]

\* AddressObject(name=name, is_group=True, type='group', value='group')
Placeholder(id, name) ==
    [id |-> id, name |-> name, type |-> "group", value |-> "group", is_group |-> TRUE]

\* first loop: one placeholder row per group whose name is not in the map
RECURSIVE GroupLoop(_, _, _, _, _)
GroupLoop(group_list, i, tbl, addr_map, group_id_map) ==
    IF i > Len(group_list)
    THEN [tbl |-> tbl, map |-> addr_map, groups |-> group_id_map]
    ELSE LET g == group_list[i]
             name == NameOf(g)
         IN  IF SkipName(name, DOMAIN addr_map)
             THEN GroupLoop(group_list, i + 1, tbl, addr_map, group_id_map)
             ELSE LET obj == Placeholder(NextId(tbl), name)
                      members == Or(Get(g, "static"),
                                    Or(Get(g, "static_value"), List(<<>>)))
                  IN  GroupLoop(group_list, i + 1, tbl \cup {obj},
                                addr_map @@ (Lower(name) :> obj.id),
                                Append(group_id_map, [id |-> obj.id, members |-> members]))

\* set(members), a single string standing for a list of one
MemberSet(members) == SeqToSet(members.v)

\* variant: the set of links is not consulted
LinkWantedNoSet(pair, links) == pair[2] # 0

\* a membership row is inserted for a resolved member not linked before
LinkWanted(pair, links) == pair[2] # 0 /\ pair \notin links

RECURSIVE LinkMembers(_, _, _, _, _)
LinkMembers(gid, names, addr_map, links, tbl) ==
    IF names = {} THEN [links |-> links, tbl |-> tbl]
    ELSE LET m_name == CHOOSE n \in names : TRUE
             m_id == MapGet(addr_map, Lower(m_name))
             hit == LinkWanted(<<gid, m_id>>, links)
         IN  LinkMembers(gid, names \ {m_name}, addr_map,
                 IF hit THEN links \cup {<<gid, m_id>>} ELSE links,
                 IF hit THEN InsertRow(tbl, [parent_id |-> gid, member_id |-> m_id])
                        ELSE tbl)

\* second loop: the links of every group, one set of links for all of them
RECURSIVE LinkLoop(_, _, _, _, _)
LinkLoop(group_id_map, i, addr_map, links, tbl) ==
    IF i > Len(group_id_map) THEN tbl
    ELSE LET g == group_id_map[i]
             r == LinkMembers(g.id, MemberSet(g.members), addr_map, links, tbl)
         IN  LinkLoop(group_id_map, i + 1, addr_map, r.links, r.tbl)

sync_address_groups(db, group_list, addr_map) ==
    LET p == GroupLoop(group_list, 1, db.addr, addr_map, <<>>)
    IN  [db |-> [db EXCEPT !.addr = p.tbl,
                           !.agm = LinkLoop(p.groups, 1, p.map, {}, db.agm)],
         map |-> p.map]

\* the session when phase 3 is cut short: the first loop has gone through n
\* records, the second loop through the links of m groups
GroupsPartial(db, group_list, addr_map, n, m) ==
    LET p == GroupLoop(SubSeq(group_list, 1, n), 1, db.addr, addr_map, <<>>)
    IN  [db EXCEPT !.addr = p.tbl,
                   !.agm = LinkLoop(SubSeq(p.groups, 1, m), 1, p.map, {}, db.agm)]

\* the points where phase 3 can be cut short: in the first loop no link has
\* been made; the second loop starts when the first one is over
GroupCuts(group_list, addr_map) ==
    {<<n, 0>> : n \in 0..Len(group_list)} \cup
    {<<Len(group_list), m>> :
        m \in 1..Len(GroupLoop(group_list, 1, {}, addr_map, <<>>).groups)}

-----------------------------------------------------------------------------
(* Phase 4: security rules *)

\* the characters of a string, as set(str) yields them
Chars(s) ==
    CASE s = "n1" -> {"n", "1"}
      [] s = "N1" -> {"N", "1"}
      [] s = "n2" -> {"n", "2"}
      [] s = "g1" -> {"g", "1"}
      [] s = "zz" -> {"z"}
      [] s = "any" -> {"a", "n", "y"}
      [] s = "" -> {}
      [] OTHER -> {s}

\* set(r.get(key, [])): the entries of a list, the characters of a string
RefSet(r, key) ==
    LET x == GetD(r, key, List(<<>>))
    IN  IF x.t = "str" THEN Chars(x.v[1]) ELSE SeqToSet(x.v)

\* set(None) raises TypeError
RefRaises(r, key) == GetD(r, key, List(<<>>)).t = "none"

\* variant: the last element of a zone list
LastZone(zones) ==
    IF zones.t = "list" /\ Len(zones.v) > 0 THEN zones.v[Len(zones.v)] ELSE "any"

\* the first element of a zone list, "any" for anything else
FirstZone(zones) ==
    IF zones.t = "list" /\ Len(zones.v) > 0 THEN zones.v[1] ELSE "any"

\* one association row per entry of the set that the map resolves
RECURSIVE LinkRefs(_, _, _, _)
LinkRefs(rule_id, names, map, tbl) ==
    IF names = {} THEN tbl
    ELSE LET s == CHOOSE n \in names : TRUE
             o_id == MapGet(map, Lower(s))
         IN  LinkRefs(rule_id, names \ {s}, map,
                 IF o_id # 0 THEN InsertRow(tbl, [rule_id |-> rule_id, obj_id |-> o_id])
                             ELSE tbl)

\* the body of the loop for one rule record that is not skipped
SyncOneRule(db, r, addr_map, svc_map) ==
    LET f_zones == Or(Get(r, "fromzone"), Or(Get(r, "from"), List(<<"any">>)))
        t_zones == Or(Get(r, "tozone"), Or(Get(r, "to"), List(<<"any">>)))
        rule == [id |-> NextId(db.rule), name |-> NameOf(r),
                 from_zone |-> FirstZone(f_zones), to_zone |-> FirstZone(t_zones),
                 action |-> PyStr(GetD(r, "action", Str("allow")))]
        d0 == [db EXCEPT !.rule = @ \cup {rule}]
        d1 == [d0 EXCEPT !.rsm = LinkRefs(rule.id, RefSet(r, "source"), addr_map, @)]
        d2 == [d1 EXCEPT !.rdm = LinkRefs(rule.id, RefSet(r, "destination"), addr_map, @)]
        d3 == [d2 EXCEPT !.rvm = LinkRefs(rule.id, RefSet(r, "service"), svc_map, @)]
    IN  IF RefRaises(r, "source") THEN [db |-> d0, err |-> TRUE]
        ELSE IF RefRaises(r, "destination") THEN [db |-> d1, err |-> TRUE]
        ELSE IF RefRaises(r, "service") THEN [db |-> d2, err |-> TRUE]
        ELSE [db |-> d3, err |-> FALSE]

\* the records 1..n of the list, stopping at the first one that raises
RECURSIVE RuleLoop(_, _, _, _, _, _, _)
RuleLoop(rules_list, i, n, db, processed_rules, addr_map, svc_map) ==
    IF i > n THEN [db |-> db, err |-> FALSE]
    ELSE LET r == rules_list[i]
             name == NameOf(r)
         IN  IF SkipName(name, processed_rules)
             THEN RuleLoop(rules_list, i + 1, n, db, processed_rules, addr_map, svc_map)
             ELSE LET one == SyncOneRule(db, r, addr_map, svc_map)
                  IN  IF one.err THEN one
                      ELSE RuleLoop(rules_list, i + 1, n, one.db,
                                    processed_rules \cup {Lower(name)}, addr_map, svc_map)

sync_security_rules(db, rules_list, n, addr_map, svc_map) ==
    RuleLoop(rules_list, 1, n, db, {}, addr_map, svc_map)

-----------------------------------------------------------------------------
(* Phase 5: network topology *)

\* one NetworkInterface row per zone member that has a bound subnet
RECURSIVE ZoneLoop(_, _, _, _)
ZoneLoop(zones, i, iface_map, tbl) ==
    IF i > Len(zones) THEN tbl
    ELSE LET z == zones[i]
             m == z.member    \* zones is the list of (zone, member) pairs in document order
         IN  ZoneLoop(zones, i + 1, iface_map,
                 IF m \in DOMAIN iface_map
                 THEN tbl \cup {[id |-> NextId(tbl), name |-> m,
                                 subnet |-> iface_map[m], zone_name |-> z.name]}
                 ELSE tbl)

\* variant: the rows of the last resync are not deleted
TopologyNotCleared(db, topo) ==
    IF topo.fails THEN db
    ELSE [db EXCEPT !.iface = ZoneLoop(topo.zones, 1, topo.iface_map, db.iface)]

\* the table is cleared first; a failed fetch or parse is swallowed
sync_network_topology(db, topo) ==
    IF topo.fails THEN [db EXCEPT !.iface = {}]
    ELSE [db EXCEPT !.iface = ZoneLoop(topo.zones, 1, topo.iface_map, {})]

-----------------------------------------------------------------------------
(* The object resolver *)

Present(tbl, id) == \E r \in tbl : r.id = id

ObjIn(tbl, id) == CHOOSE r \in tbl : r.id = id

TableOf(db, kind) == IF kind = "addr" THEN db.addr ELSE db.svc

\* getattr(obj, 'is_group', False)
IsGroup(obj) == IF "is_group" \in DOMAIN obj THEN obj.is_group ELSE FALSE

\* getattr(obj, 'value', '') or getattr(obj, 'port', '')
TechVal(obj) ==
    LET v == IF "value" \in DOMAIN obj THEN obj.value ELSE ""
    IN  IF v # "" THEN v ELSE IF "port" \in DOMAIN obj THEN obj.port ELSE ""

\* a leaf contributes its value unless it is empty or "any" in any case
LeafContent(val) ==
    IF val # "" /\ Lower(val) # "any" THEN SetToBag({val}) ELSE EmptyBag

\* obj.members: the rows the membership table links to a group; a service
\* has no such relationship
MemberIds(db, kind, id) ==
    IF kind = "addr"
    THEN {r.member_id : r \in {x \in BagToSet(db.agm) : x.parent_id = id}}
    ELSE {}

\* variant: the list is returned as collected
DedupSkipped(res) == res

\* list(set(res))
Dedup(res) == SetToBag(BagToSet(res))

\* A Python list is modelled as the bag of its elements. The recursion has no
\* guard: a call nested deeper than there are entities has met some group
\* twice and never returns normally (err).
RECURSIVE ResolveRec(_, _, _, _)
RECURSIVE ExtendAll(_, _, _, _, _)
ResolveRec(db, kind, id, depth) ==
    IF ~Present(TableOf(db, kind), id) THEN [err |-> FALSE, out |-> EmptyBag]
    ELSE LET obj == ObjIn(TableOf(db, kind), id)
         IN  IF ~IsGroup(obj)
             THEN [err |-> FALSE, out |-> LeafContent(TechVal(obj))]
             ELSE IF depth > Cardinality(TableOf(db, kind))
             THEN [err |-> TRUE, out |-> EmptyBag]
             ELSE LET r == ExtendAll(db, kind, MemberIds(db, kind, id), depth + 1,
                                     EmptyBag)
                  IN  IF r.err THEN r ELSE [err |-> FALSE, out |-> Dedup(r.out)]

\* for m in members: res.extend(resolve_object_content(m))
ExtendAll(db, kind, ids, depth, res) ==
    IF ids = {} THEN [err |-> FALSE, out |-> res]
    ELSE LET m == CHOOSE x \in ids : TRUE
             r == ResolveRec(db, kind, m, depth)
         IN  IF r.err THEN r
             ELSE ExtendAll(db, kind, ids \ {m}, depth, res (+) r.out)

resolve_object_content(db, kind, id) == ResolveRec(db, kind, id, 1)

-----------------------------------------------------------------------------
(* Configurations and topologies the device returns *)

\* names a reference list may hold: an object, the same name in another case,
\* a group, and a name the snapshot does not define
RefNames == {"n1", "N1", "g1", "zz"}

\* a reference list: a list of at most MaxRefs names, a single string, or None
RefLists ==
    {List(q) : q \in UNION {[1..k -> RefNames] : k \in 0..MaxRefs}}
        \cup {Str(n) : n \in {"n1", "zz"}} \cup {None_}

Snapshot(refs) ==
    [address |->
        << ("name" :> Str("n1")) @@ ("ip-netmask" :> Str("10.1.1.1")),
           ("name" :> Str("N1")) @@ ("ip-netmask" :> Str("10.9.9.9")),
           ("name" :> Str("n2")) >>,
     service |->
        << ("name" :> Str("n1")) @@ ("destination-port" :> Str("80")) >>,
     address_group |->
        << ("name" :> Str("g1")) @@ ("static" :> refs) >>,
     rules |->
        << ("name" :> Str("r0")) @@ ("source" :> List(<<"n2">>))
               @@ ("destination" :> List(<<"g1">>)) @@ ("service" :> List(<<"n1">>)),
           ("name" :> Str("r1")) @@ ("source" :> refs)
               @@ ("destination" :> refs) @@ ("service" :> refs) >>]

Snapshots == {Snapshot(refs) : refs \in RefLists}

\* what the interface and zone queries of phase 5 return, or their failure
NoTopology == [fails |-> TRUE, iface_map |-> EmptyMap, zones |-> <<>>]

Topologies ==
    { NoTopology,
      [fails |-> FALSE, iface_map |-> ("eth1" :> "10.0.0.1/24"),
       zones |-> << [name |-> "trust", member |-> "eth1"],
                    [name |-> "dmz", member |-> "eth9"] >>],
      [fails |-> FALSE,
       iface_map |-> ("eth1" :> "10.0.0.1/24") @@ ("eth2" :> "10.0.2.1/24"),
       zones |-> << [name |-> "trust", member |-> "eth2"],
                    [name |-> "dmz", member |-> "eth2"] >>] }

-----------------------------------------------------------------------------
(* The callers and sync_all *)

Callers == {"worker", "manual"}

NoSess == [db |-> EmptyDB, addr_map |-> EmptyMap, svc_map |-> EmptyMap]

\* positions between the line that sets the flag and the line that clears it
InSync(c) ==
    pc[c] \in {"wipe", "leaf", "group", "rules", "topo", "commit", "stamp",
               "except", "finally"}

\* time.time()
Now == calls

\* the inventory compared by names: row counts and association pairs
NameIn(tbl, id) == IF \E r \in tbl : r.id = id
                   THEN (CHOOSE r \in tbl : r.id = id).name ELSE "?"

NameView(db) ==
    [naddr |-> Cardinality(db.addr), nsvc |-> Cardinality(db.svc),
     nrule |-> Cardinality(db.rule),
     agm |-> {<<NameIn(db.addr, r.parent_id), NameIn(db.addr, r.member_id)>> :
                 r \in BagToSet(db.agm)},
     rsm |-> {<<NameIn(db.rule, r.rule_id), NameIn(db.addr, r.obj_id)>> :
                 r \in BagToSet(db.rsm)},
     rdm |-> {<<NameIn(db.rule, r.rule_id), NameIn(db.addr, r.obj_id)>> :
                 r \in BagToSet(db.rdm)},
     rvm |-> {<<NameIn(db.rule, r.rule_id), NameIn(db.svc, r.obj_id)>> :
                 r \in BagToSet(db.rvm)},
     rows |-> BagCardinality(db.agm) + BagCardinality(db.rsm)
                 + BagCardinality(db.rdm) + BagCardinality(db.rvm)]

\* no approval call has been made
NoCall ==
    [op |-> "none", id |-> 0, device |-> "none", code |-> 0,
     final_rule_name |-> "", svc_name |-> "", src |-> 0, dst |-> 0, svc |-> 0]

\* the request threads of the server that run approvals side by side
Threads == {1, 2}

\* a thread that runs no approval: no request read, nothing added to its session
NoApproval == [pc |-> "idle", id |-> 0, add |-> [addr |-> {}, svc |-> {}]]

\* no approval under way and no create call received by the device
NoApprovals == [call |-> [t \in Threads |-> NoApproval], device |-> <<>>]

\* no lookup has been made
NoLookup == [op |-> "none", input |-> <<>>, out |-> {}]

\* empty request and audit tables
NoRequests == [obj |-> <<>>, rule |-> <<>>, audit |-> <<>>]

\* the names of the entities of an inventory
EntityNames(db) ==
    [addr |-> {o.name : o \in db.addr}, svc |-> {o.name : o \in db.svc},
     rule |-> {o.name : o \in db.rule}]

\* the record of a successful resync, appended to the last one kept
Resynced(fw_config, db) ==
    LET h == Append(okHist, [snap |-> fw_config, view |-> NameView(db),
                             names |-> EntityNames(db)])
    IN  IF Len(h) > 2 THEN Tail(h) ELSE h

InitIdle ==
    /\ sess = [c \in Callers |-> NoSess]
    /\ pc = [c \in Callers |-> "idle"]
    /\ snap = [c \in Callers |-> Snapshot(None_)]
    /\ ret = [c \in Callers |-> "none"]
    /\ sync_lock = FALSE
    /\ last_sync_time = 0
    /\ calls = 0
    /\ entry = [c \in Callers |-> [store |-> EmptyDB, clean |-> TRUE, topo |-> "none",
                                    fetched |-> NoTopology]]
    /\ path = [c \in Callers |-> "none"]
    /\ okHist = <<>>
    /\ resObj = [kind |-> "none", id |-> 0]
    /\ resOut = [err |-> FALSE, out |-> EmptyBag]
    /\ appr = NoCall
    /\ approving = NoApprovals
    /\ look = NoLookup

\* the caller fetches the configuration and calls sync_all
Start(c) ==
    /\ pc[c] = "idle"
    /\ calls < MaxCalls
    /\ \E s \in pool : snap' = [snap EXCEPT ![c] = s]
    /\ calls' = calls + 1
    /\ pc' = [pc EXCEPT ![c] = "check"]
    /\ ret' = [ret EXCEPT ![c] = "none"]
    /\ path' = [path EXCEPT ![c] = "none"]
    /\ entry' = [entry EXCEPT ![c] = [store |-> store, clean |-> TRUE, topo |-> "none",
                                      fetched |-> NoTopology]]
    /\ UNCHANGED <<store, sess, sync_lock, last_sync_time, pool, okHist, resObj, resOut,
                   reqs, appr, approving, look>>

\* variant: the flag is tested inside the try block, so that the skipped call
\* runs the finally clause
CheckLockInsideTry(c) ==
    /\ pc[c] = "check"
    /\ IF sync_lock
       THEN /\ pc' = [pc EXCEPT ![c] = "finally"]
            /\ ret' = [ret EXCEPT ![c] = "false"]
            /\ path' = [path EXCEPT ![c] = "skipped"]
       ELSE /\ pc' = [pc EXCEPT ![c] = "set"]
            /\ UNCHANGED <<ret, path>>
    /\ UNCHANGED <<store, sess, snap, sync_lock, last_sync_time, calls, pool, entry,
                   okHist, resObj, resOut,
                   reqs, appr, approving, look>>

\* if SyncManager._sync_lock: return False
CheckLock(c) ==
    /\ pc[c] = "check"
    /\ IF sync_lock
       THEN /\ pc' = [pc EXCEPT ![c] = "back"]
            /\ ret' = [ret EXCEPT ![c] = "false"]
            /\ path' = [path EXCEPT ![c] = "skipped"]
       ELSE /\ pc' = [pc EXCEPT ![c] = "set"]
            /\ UNCHANGED <<ret, path>>
    /\ UNCHANGED <<store, sess, snap, sync_lock, last_sync_time, calls, pool, entry,
                   okHist, resObj, resOut,
                   reqs, appr, approving, look>>

\* SyncManager._sync_lock = True; the session is emptied
SetLock(c) ==
    /\ pc[c] = "set"
    /\ sync_lock' = TRUE
    /\ sess' = [sess EXCEPT ![c] = NoSess]
    /\ pc' = [pc EXCEPT ![c] = "wipe"]
    /\ UNCHANGED <<store, snap, ret, last_sync_time, calls, pool, entry, path,
                   okHist, resObj, resOut,
                   reqs, appr, approving, look>>

\* an exception leaves the phase with what the session holds so far
Raise(c, phase, db) ==
    /\ sess' = [sess EXCEPT ![c].db = db]
    /\ path' = [path EXCEPT ![c] = phase]
    /\ pc' = [pc EXCEPT ![c] = "except"]

\* variant: the bulk deletes are committed as they run
WipePhaseAutocommit(c) ==
    /\ pc[c] = "wipe"
    /\ store' = Wipe(store)
    /\ sess' = [sess EXCEPT ![c].db = Wipe(store)]
    /\ pc' = [pc EXCEPT ![c] = "leaf"]
    /\ UNCHANGED <<snap, ret, sync_lock, last_sync_time, calls, pool, entry, path,
                   okHist, resObj, resOut,
                   reqs, appr, approving, look>>

\* phase 1, on the transaction's view of the store
WipePhase(c) ==
    /\ pc[c] = "wipe"
    /\ \/ /\ sess' = [sess EXCEPT ![c].db = Wipe(store)]
          /\ pc' = [pc EXCEPT ![c] = "leaf"]
          /\ UNCHANGED path
       \/ \E k \in 0..Len(WipeOrder) : Raise(c, "wipe", WipePrefix(store, k))
    /\ UNCHANGED <<store, snap, ret, sync_lock, last_sync_time, calls, pool, entry,
                   okHist, resObj, resOut,
                   reqs, appr, approving, look>>

\* phase 2
LeafPhase(c) ==
    /\ pc[c] = "leaf"
    /\ LET a == sync_address_objects(sess[c].db.addr, snap[c].address)
           s == sync_service_objects(sess[c].db.svc, snap[c].service)
       IN  \/ /\ sess' = [sess EXCEPT ![c] =
                    [db |-> [sess[c].db EXCEPT !.addr = a.tbl, !.svc = s.tbl],
                     addr_map |-> a.map, svc_map |-> s.map]]
              /\ pc' = [pc EXCEPT ![c] = "group"]
              /\ UNCHANGED path
           \/ Raise(c, "leaf", [sess[c].db EXCEPT !.addr = a.tbl])
    /\ UNCHANGED <<store, snap, ret, sync_lock, last_sync_time, calls, pool, entry,
                   okHist, resObj, resOut,
                   reqs, appr, approving, look>>

\* phase 3
GroupPhase(c) ==
    /\ pc[c] = "group"
    /\ LET g == sync_address_groups(sess[c].db, snap[c].address_group, sess[c].addr_map)
       IN  \/ /\ sess' = [sess EXCEPT ![c].db = g.db, ![c].addr_map = g.map]
              /\ pc' = [pc EXCEPT ![c] = "rules"]
              /\ UNCHANGED path
           \/ \E cut \in GroupCuts(snap[c].address_group, sess[c].addr_map) :
                 Raise(c, "group", GroupsPartial(sess[c].db, snap[c].address_group,
                                                 sess[c].addr_map, cut[1], cut[2]))
    /\ UNCHANGED <<store, snap, ret, sync_lock, last_sync_time, calls, pool, entry,
                   okHist, resObj, resOut,
                   reqs, appr, approving, look>>

\* phase 4: a record may raise by its shape, the store may raise after any record
RulesPhase(c) ==
    /\ pc[c] = "rules"
    /\ LET all == sync_security_rules(sess[c].db, snap[c].rules, Len(snap[c].rules),
                                      sess[c].addr_map, sess[c].svc_map)
       IN  \/ /\ ~all.err
              /\ sess' = [sess EXCEPT ![c].db = all.db]
              /\ pc' = [pc EXCEPT ![c] = "topo"]
              /\ UNCHANGED path
           \/ /\ all.err
              /\ Raise(c, "rules", all.db)
           \/ \E n \in 0..(Len(snap[c].rules) - 1) :
                 LET part == sync_security_rules(sess[c].db, snap[c].rules, n,
                                                 sess[c].addr_map, sess[c].svc_map)
                 IN  /\ ~part.err
                     /\ Raise(c, "rules", part.db)
    /\ UNCHANGED <<store, snap, ret, sync_lock, last_sync_time, calls, pool, entry,
                   okHist, resObj, resOut,
                   reqs, appr, approving, look>>

\* variant: a failed fetch or parse leaves the phase as an exception
TopoPhaseRaises(c) ==
    /\ pc[c] = "topo"
    /\ \E topo \in Topologies :
          /\ entry' = [entry EXCEPT ![c].topo = IF topo.fails THEN "failed" ELSE "fetched",
                                    ![c].fetched = topo]
          /\ IF topo.fails
             THEN Raise(c, "topo", sync_network_topology(sess[c].db, topo))
             ELSE /\ sess' = [sess EXCEPT ![c].db = sync_network_topology(sess[c].db, topo)]
                  /\ pc' = [pc EXCEPT ![c] = "commit"]
                  /\ UNCHANGED path
    /\ UNCHANGED <<store, snap, ret, sync_lock, last_sync_time, calls, pool,
                   okHist, resObj, resOut, reqs, appr, approving, look>>

\* phase 5 never raises: whether the fetch failed is only recorded
TopoPhase(c) ==
    /\ pc[c] = "topo"
    /\ \E topo \in Topologies :
          /\ sess' = [sess EXCEPT ![c].db = sync_network_topology(sess[c].db, topo)]
          /\ entry' = [entry EXCEPT ![c].topo = IF topo.fails THEN "failed" ELSE "fetched",
                                    ![c].fetched = topo]
    /\ pc' = [pc EXCEPT ![c] = "commit"]
    /\ UNCHANGED <<store, snap, ret, sync_lock, last_sync_time, calls, pool,
                   path, okHist, resObj, resOut, reqs, appr, approving, look>>

\* db_sql.session.commit()
Commit(c) ==
    /\ pc[c] = "commit"
    /\ \/ /\ store' = sess[c].db
          /\ pc' = [pc EXCEPT ![c] = "stamp"]
          /\ path' = [path EXCEPT ![c] = "ok"]
          /\ entry' = [d \in Callers |->
                          IF d = c THEN entry[d] ELSE [entry[d] EXCEPT !.clean = FALSE]]
          /\ okHist' = Resynced(snap[c], sess[c].db)
          /\ UNCHANGED sess
       \/ /\ Raise(c, "commit", sess[c].db)
          /\ UNCHANGED <<store, entry, okHist>>
    /\ UNCHANGED <<snap, ret, sync_lock, last_sync_time, calls, pool, resObj, resOut,
                   reqs, appr, approving, look>>

\* SyncManager._last_sync_time = time.time(); return True
Stamp(c) ==
    /\ pc[c] = "stamp"
    /\ last_sync_time' = Now
    /\ ret' = [ret EXCEPT ![c] = "true"]
    /\ pc' = [pc EXCEPT ![c] = "finally"]
    /\ UNCHANGED <<store, sess, snap, sync_lock, calls, pool, entry, path, okHist,
                   resObj, resOut,
                   reqs, appr, approving, look>>

\* variant: the handler lets the exception go on to the caller
ExceptReraises(c) ==
    /\ pc[c] = "except"
    /\ sess' = [sess EXCEPT ![c] = NoSess]
    /\ ret' = [ret EXCEPT ![c] = "raised"]
    /\ pc' = [pc EXCEPT ![c] = "finally"]
    /\ UNCHANGED <<store, snap, sync_lock, last_sync_time, calls, pool, entry, path,
                   okHist, resObj, resOut,
                   reqs, appr, approving, look>>

\* variant: the handler commits what was flushed instead of rolling it back
ExceptCommits(c) ==
    /\ pc[c] = "except"
    /\ store' = sess[c].db
    /\ sess' = [sess EXCEPT ![c] = NoSess]
    /\ ret' = [ret EXCEPT ![c] = "false"]
    /\ pc' = [pc EXCEPT ![c] = "finally"]
    /\ UNCHANGED <<snap, sync_lock, last_sync_time, calls, pool, entry, path,
                   okHist, resObj, resOut,
                   reqs, appr, approving, look>>

\* variant: the handler records the time of the attempt
ExceptStamps(c) ==
    /\ pc[c] = "except"
    /\ sess' = [sess EXCEPT ![c] = NoSess]
    /\ ret' = [ret EXCEPT ![c] = "false"]
    /\ last_sync_time' = Now
    /\ pc' = [pc EXCEPT ![c] = "finally"]
    /\ UNCHANGED <<store, snap, sync_lock, calls, pool, entry, path,
                   okHist, resObj, resOut, reqs, appr, approving, look>>

\* except Exception: rollback; return False
Except(c) ==
    /\ pc[c] = "except"
    /\ sess' = [sess EXCEPT ![c] = NoSess]
    /\ ret' = [ret EXCEPT ![c] = "false"]
    /\ pc' = [pc EXCEPT ![c] = "finally"]
    /\ UNCHANGED <<store, snap, sync_lock, last_sync_time, calls, pool, entry, path,
                   okHist, resObj, resOut,
                   reqs, appr, approving, look>>

\* variant: the flag is cleared on the success path only
FinallyOnSuccessOnly(c) ==
    /\ pc[c] = "finally"
    /\ sync_lock' = IF ret[c] = "true" THEN FALSE ELSE sync_lock
    /\ sess' = [sess EXCEPT ![c] = NoSess]
    /\ pc' = [pc EXCEPT ![c] = "back"]
    /\ UNCHANGED <<store, snap, ret, last_sync_time, calls, pool, entry, path,
                   okHist, resObj, resOut,
                   reqs, appr, approving, look>>

\* finally: SyncManager._sync_lock = False
Finally(c) ==
    /\ pc[c] = "finally"
    /\ sync_lock' = FALSE
    /\ sess' = [sess EXCEPT ![c] = NoSess]
    /\ pc' = [pc EXCEPT ![c] = "back"]
    /\ UNCHANGED <<store, snap, ret, last_sync_time, calls, pool, entry, path,
                   okHist, resObj, resOut,
                   reqs, appr, approving, look>>

\* variant: the caller goes on only after a call that returned true
BackStopsOnFailure(c) ==
    /\ pc[c] = "back"
    /\ pc' = [pc EXCEPT ![c] = IF ret[c] = "true" THEN "idle" ELSE "stopped"]
    /\ UNCHANGED <<store, sess, snap, ret, sync_lock, last_sync_time, calls, pool,
                   entry, path, okHist, resObj, resOut, reqs, appr, approving, look>>

\* the caller reports the result and waits for its next trigger
Back(c) ==
    /\ pc[c] = "back"
    /\ pc' = [pc EXCEPT ![c] = "idle"]
    /\ UNCHANGED <<store, sess, snap, ret, sync_lock, last_sync_time, calls, pool,
                   entry, path, okHist, resObj, resOut,
                   reqs, appr, approving, look>>

SyncStep(c) ==
    \/ Start(c) \/ CheckLock(c) \/ SetLock(c)
    \/ WipePhase(c) \/ LeafPhase(c) \/ GroupPhase(c) \/ RulesPhase(c) \/ TopoPhase(c)
    \/ Commit(c) \/ Stamp(c) \/ Except(c) \/ Finally(c) \/ Back(c)

\* the background worker and the manual trigger, two configurations
Init ==
    /\ InitIdle
    /\ reqs = NoRequests
    /\ store = EmptyDB
    /\ pool = {Snapshot(List(<<"n1", "N1">>)), Snapshot(None_)}

Next == \E c \in Callers : SyncStep(c)

Spec == Init /\ [][Next]_vars

\* one caller at a time, any configuration of the bounded set
InitData ==
    /\ InitIdle
    /\ reqs = NoRequests
    /\ store = EmptyDB
    /\ \E s \in Snapshots : pool = {s}

NextData == SyncStep("worker")

SpecData == InitData /\ [][NextData]_vars

-----------------------------------------------------------------------------
(* The periodic worker, run without end *)

\* one pass of the caller's body: the configuration is fetched, which may
\* raise, and sync_all is called; the count of the calls stops at its bound
Iterate(c) ==
    /\ pc[c] = "idle"
    /\ calls' = IF calls < MaxCalls THEN calls + 1 ELSE calls
    /\ entry' = [entry EXCEPT ![c] = [store |-> store, clean |-> TRUE, topo |-> "none",
                                      fetched |-> NoTopology]]
    /\ \/ /\ \E s \in pool : snap' = [snap EXCEPT ![c] = s]
          /\ pc' = [pc EXCEPT ![c] = "check"]
          /\ ret' = [ret EXCEPT ![c] = "none"]
          /\ path' = [path EXCEPT ![c] = "none"]
       \/ /\ pc' = [pc EXCEPT ![c] = "back"]
          /\ ret' = [ret EXCEPT ![c] = "raised"]
          /\ path' = [path EXCEPT ![c] = "fetch"]
          /\ UNCHANGED snap
    /\ UNCHANGED <<store, sess, sync_lock, last_sync_time, pool, okHist, resObj, resOut,
                   reqs, appr, approving, look>>

\* the steps of a call once the caller's pass has begun
Running(c) ==
    \/ CheckLock(c) \/ SetLock(c)
    \/ WipePhase(c) \/ LeafPhase(c) \/ GroupPhase(c) \/ RulesPhase(c) \/ TopoPhase(c)
    \/ Commit(c) \/ Stamp(c) \/ Except(c) \/ Finally(c) \/ Back(c)

WorkerStep(c) == Iterate(c) \/ Running(c)

InitWorker ==
    /\ InitIdle
    /\ reqs = NoRequests
    /\ store = EmptyDB
    /\ pool = {Snapshot(List(<<"n1">>)), Snapshot(None_)}

NextWorker == WorkerStep("worker")

\* the worker thread always runs again after its sleep
SpecWorker == InitWorker /\ [][NextWorker]_vars /\ WF_vars(NextWorker)

-----------------------------------------------------------------------------
(* The resolver on bounded inventories *)

\* values of a leaf: two addresses, "any" in mixed case, nothing
LeafValues == {"10.1.1.1", "10.2.2.2", "Any", ""}

\* entity i of an inventory: a group, or a leaf with one of the values
AddrRow(i, k) ==
    IF k = "group"
    THEN [id |-> i, name |-> "o", type |-> "group", value |-> "group", is_group |-> TRUE]
    ELSE [id |-> i, name |-> "o", type |-> "host", value |-> k, is_group |-> FALSE]

\* the membership rows an inventory of these kinds may hold: the parent is a
\* group and the member an entity of smaller id, or the group itself
MemberPairs(kinds) ==
    {e \in (1..MaxObjs) \X (1..MaxObjs) : kinds[e[1]] = "group" /\ e[1] >= e[2]}

Inventories ==
    { [EmptyDB EXCEPT
          !.addr = {AddrRow(i, kinds[i]) : i \in 1..MaxObjs},
          !.svc = {[id |-> 1, name |-> "s1", protocol |-> "tcp", port |-> "80"],
                   [id |-> 2, name |-> "s2", protocol |-> "tcp", port |-> "any"]},
          !.agm = SetToBag({[parent_id |-> e[1], member_id |-> e[2]] : e \in edges})] :
        <<kinds, edges>> \in
            UNION {{<<k, e>> : e \in SUBSET MemberPairs(k)} :
                       k \in [1..MaxObjs -> LeafValues \cup {"group"}]} }

InitResolve ==
    /\ InitIdle
    /\ reqs = NoRequests
    /\ pool = {Snapshot(None_)}
    /\ store \in Inventories

\* a tooltip or search resolves one entity of the inventory, or an absent one
Resolve(kind, id) ==
    /\ resObj' = [kind |-> kind, id |-> id]
    /\ resOut' = resolve_object_content(store, kind, id)
    /\ UNCHANGED <<store, sess, pc, snap, ret, sync_lock, last_sync_time, calls,
                   pool, entry, path, okHist, reqs, appr, approving, look>>

NextResolve ==
    \/ \E id \in 0..MaxObjs : Resolve("addr", id)
    \/ \E id \in 1..3 : Resolve("svc", id)

SpecResolve == InitResolve /\ [][NextResolve]_vars

-----------------------------------------------------------------------------
(* Approval of object requests (approve_object) *)

\* '/' in v, on the values of the model
HasSlash(v) == v \in {"10.3.0.0/16"}

\* val_with_mask: the prefix of the request unless it is empty or '0', else
\* the value as it is if it carries a mask, else a host mask
ValWithMask(v, prefix) ==
    IF prefix # "" /\ prefix # "0" THEN v \o "/" \o prefix
    ELSE IF HasSlash(v) THEN v ELSE v \o "/32"

\* [m.strip() for m in v.split(',') if m.strip()], on the values of the model
Members(v) ==
    CASE v = "," -> <<>>
      [] v = "n1, N1" -> <<"n1", "N1">>
      [] OTHER -> <<v>>

\* v.replace(" ", "")
CleanPort(v) ==
    CASE v = "80, 443" -> "80,443"
      [] OTHER -> v

OrDefault(x, d) == IF x # "" THEN x ELSE d

\* variant: the query for a row of that name finds nothing
NameTakenNever(tbl, n) == FALSE

\* Model.query.filter_by(name=n).first(): a row with exactly that name
NameTaken(tbl, n) == \E o \in tbl : o.name = n

\* a panos object is built for the four known types only
HasPanObject(r) ==
    r.obj_type \in {"address", "address-group", "service", "service-group"}

\* a service group without members is refused before anything is built
EmptyServiceGroup(r) == r.obj_type = "service-group" /\ Members(r.value) = <<>>

\* the row the request adds to the session unless its name is taken; a
\* column that is not set is the empty string
ObjectUpsert(db, r) ==
    LET n == r.name
        v == r.value
        address == [id |-> NextId(db.addr), name |-> n, type |-> "ip-netmask",
                    value |-> ValWithMask(v, r.prefix), is_group |-> FALSE]
        group == [id |-> NextId(db.addr), name |-> n, type |-> "group",
                  value |-> "", is_group |-> TRUE]
        service == [id |-> NextId(db.svc), name |-> n,
                    protocol |-> OrDefault(r.protocol, "tcp"), port |-> CleanPort(v)]
        svcgroup == [id |-> NextId(db.svc), name |-> n, protocol |-> "", port |-> ""]
    IN  CASE r.obj_type = "address" /\ ~NameTaken(db.addr, n) ->
                 [db EXCEPT !.addr = @ \cup {address}]
          [] r.obj_type = "address-group" /\ ~NameTaken(db.addr, n) ->
                 [db EXCEPT !.addr = @ \cup {group}]
          [] r.obj_type = "service" /\ ~NameTaken(db.svc, n) ->
                 [db EXCEPT !.svc = @ \cup {service}]
          [] r.obj_type = "service-group" /\ ~NameTaken(db.svc, n) ->
                 [db EXCEPT !.svc = @ \cup {svcgroup}]
          [] OTHER -> db

\* variant: what the session holds stays in the store
NotRolledBack(db, pending) == pending

\* db_sql.session.rollback(): the committed store without the pending rows
RolledBack(db, pending) == db

\* one operation at a time: no sync_all call is under way
Quiet == \A c \in Callers : pc[c] = "idle"

\* an administrator approves object request id; a request that is not
\* pending is answered 404 and nothing is touched
approve_object(id) ==
    /\ Quiet
    /\ id \in DOMAIN reqs.obj
    /\ LET r == reqs.obj[id]
           call == [NoCall EXCEPT !.op = "approve_object", !.id = id]
           pending == ObjectUpsert(store, r)
           approved ==
               [reqs EXCEPT !.obj[id].status = "Approved",
                            !.audit = Append(@, [action |-> "APPROVE_OBJECT",
                                                 resource_name |-> r.name])]
       IN  \/ /\ r.status # "Pending"
              /\ UNCHANGED <<store, reqs, appr>>
           \/ /\ r.status = "Pending" /\ EmptyServiceGroup(r)
              /\ appr' = [call EXCEPT !.code = 400]
              /\ UNCHANGED <<store, reqs>>
           \/ /\ r.status = "Pending" /\ ~EmptyServiceGroup(r) /\ HasPanObject(r)
              /\ appr' = [call EXCEPT !.device = "fail", !.code = 400]
              /\ store' = RolledBack(store, pending)
              /\ UNCHANGED reqs
           \/ /\ r.status = "Pending" /\ ~EmptyServiceGroup(r)
              /\ LET device == IF HasPanObject(r) THEN "ok" ELSE "none"
                 IN  \/ /\ appr' = [call EXCEPT !.device = device, !.code = 200]
                        /\ store' = pending
                        /\ reqs' = approved
                     \/ /\ appr' = [call EXCEPT !.device = device, !.code = 500]
                        /\ store' = RolledBack(store, pending)
                        /\ UNCHANGED reqs
    /\ UNCHANGED <<sess, pc, snap, ret, sync_lock, last_sync_time, calls, pool, entry,
                   path, okHist, resObj, resOut, approving, look>>

-----------------------------------------------------------------------------
(* Approval of rule requests (approve_single_rule) *)

\* rule_name with blanks replaced by '_' and every character outside
\* [a-zA-Z0-9_-] removed, on the names of the model
CleanName(s) ==
    CASE s = "r 1" -> "r_1"
      [] s = "9x!" -> "9x"
      [] OTHER -> s

\* clean_name[0].isalpha()
StartsAlpha(s) == s \in {"r1", "R1", "r_1", "r0"}

\* names of the model are shorter than the 63 characters kept
FinalRuleName(rule_name) ==
    LET clean_name == CleanName(rule_name)
    IN  IF clean_name # "" /\ StartsAlpha(clean_name) THEN clean_name
        ELSE "R_" \o clean_name

\* the name ensure_service_object returns for a port and protocol: that of a
\* service the device holds, in the device's spelling, or of one it creates
ServiceNames == {"N1", "tcp-443"}

\* .first() of a query without ORDER BY: SQLite scans the table by rowid
First(rows) ==
    IF rows = {} THEN 0 ELSE (CHOOSE o \in rows : \A x \in rows : o.id <= x.id).id

\* the SecurityRule row of that name, inserted if absent, else its zones set
RuleUpsert(db, r, name) ==
    LET found == First({x \in db.rule : x.name = name})
        synced_rule == [id |-> NextId(db.rule), name |-> name,
                        from_zone |-> OrDefault(r.from_zone, "any"),
                        to_zone |-> OrDefault(r.to_zone, "any"), action |-> "allow"]
    IN  IF found = 0
        THEN [db |-> [db EXCEPT !.rule = @ \cup {synced_rule}], id |-> synced_rule.id]
        ELSE [db |-> [db EXCEPT !.rule =
                         {IF x.id = found
                          THEN [x EXCEPT !.from_zone = OrDefault(r.from_zone, "any"),
                                         !.to_zone = OrDefault(r.to_zone, "any")]
                          ELSE x : x \in @}],
              id |-> found]

\* variant: name and value are compared as they are written
MatchesExactCase(tbl, identifier) ==
    {o \in tbl : o.name = identifier \/ o.value = identifier}

\* the AddressObject rows whose name or value is the identifier, case ignored
Matches(tbl, identifier) ==
    {o \in tbl : Lower(o.name) = Lower(identifier) \/ Lower(o.value) = Lower(identifier)}

\* not identifier or identifier.lower() == 'any'
LinkGuard(identifier) == identifier = "" \/ Lower(identifier) = "any"

\* the object the query of robust_link yields, 0 for none or when guarded
Linked(tbl, identifier) ==
    IF LinkGuard(identifier) THEN 0 ELSE First(Matches(tbl, identifier))

\* the ids a relationship collection of the rule holds
Collection(tbl, rule_id) ==
    {x.obj_id : x \in {y \in BagToSet(tbl) : y.rule_id = rule_id}}

\* variant: the object is appended whether or not the collection holds it
AppendWantedAlways(tbl, rule_id, obj_id) == obj_id # 0

\* if obj and obj not in target_list
AppendWanted(tbl, rule_id, obj_id) ==
    obj_id # 0 /\ obj_id \notin Collection(tbl, rule_id)

\* target_list.append(obj), flushed as one association row
robust_link(tbl, rule_id, obj_id) ==
    IF AppendWanted(tbl, rule_id, obj_id)
    THEN InsertRow(tbl, [rule_id |-> rule_id, obj_id |-> obj_id])
    ELSE tbl

\* an administrator approves rule request id; a request that is not pending
\* is answered 404 and nothing is touched
approve_single_rule(id) ==
    /\ Quiet
    /\ id \in DOMAIN reqs.rule
    /\ LET r == reqs.rule[id]
           name == FinalRuleName(r.rule_name)
           call == [NoCall EXCEPT !.op = "approve_single_rule", !.id = id,
                                  !.final_rule_name = name]
           approved ==
               [reqs EXCEPT !.rule[id].status = "Approved",
                            !.audit = Append(@, [action |-> "APPROVE_RULE",
                                                 resource_name |-> name])]
       IN  \/ /\ r.status # "Pending"
              /\ UNCHANGED <<store, reqs, appr>>
           \/ /\ r.status = "Pending"
              /\ appr' = [call EXCEPT !.device = "fail", !.code = 500]
              /\ store' = RolledBack(store, store)
              /\ UNCHANGED reqs
           \/ /\ r.status = "Pending"
              /\ \E svc_name \in ServiceNames :
                    LET up == RuleUpsert(store, r, name)
                        src == Linked(up.db.addr, r.source_ip)
                        dst == Linked(up.db.addr, r.destination_ip)
                        svc == First({o \in up.db.svc : Lower(o.name) = Lower(svc_name)})
                        pending ==
                            [up.db EXCEPT !.rsm = robust_link(@, up.id, src),
                                          !.rdm = robust_link(@, up.id, dst),
                                          !.rvm = robust_link(@, up.id, svc)]
                        done == [call EXCEPT !.device = "ok", !.svc_name = svc_name,
                                             !.src = src, !.dst = dst, !.svc = svc]
                    IN  \/ /\ appr' = [done EXCEPT !.code = 200]
                           /\ store' = pending
                           /\ reqs' = approved
                        \/ /\ appr' = [done EXCEPT !.code = 500]
                           /\ store' = RolledBack(store, pending)
                           /\ UNCHANGED reqs
    /\ UNCHANGED <<sess, pc, snap, ret, sync_lock, last_sync_time, calls, pool, entry,
                   path, okHist, resObj, resOut, approving, look>>

-----------------------------------------------------------------------------
(* Resyncs and approvals, one operation at a time *)

\* a pending ObjectRequest as create_object_request stores it (value stripped)
ObjectRequest(t, n, v, prefix, protocol) ==
    [obj_type |-> t, name |-> n, value |-> v, prefix |-> prefix,
     protocol |-> protocol, status |-> "Pending", admin_notes |-> ""]

\* a pending RuleRequest as create_rule stores it
RuleRequest(n, src, dst, port, fz, tz) ==
    [rule_name |-> n, source_ip |-> src, destination_ip |-> dst,
     service_port |-> port, protocol |-> "tcp", from_zone |-> fz, to_zone |-> tz,
     status |-> "Pending", admin_notes |-> ""]

\* the rule requests of a run: two for one rule name, whose source is an
\* object name in another case and whose destination is a value or "any"
RuleRequestsByName ==
    << RuleRequest("r1", "N1", "10.1.1.1", "80", "", "dmz"),
       RuleRequest("r1", "N1", "ANY", "443", "trust", "") >>

\* one whose name needs the R_ prefix, with no source and an unknown destination
RuleRequestsPrefixed == << RuleRequest("9x!", "", "zz", "80", "", "") >>

\* the request tables of a run. Object requests: two for one address name; a
\* name in another case and a group; a service and a service group without
\* members; a service group and a request of a type approve_object does not know
RequestTables ==
    { [obj |-> << ObjectRequest("address", "n1", "10.1.1.1", "", "tcp"),
                  ObjectRequest("address", "n1", "10.3.0.0/16", "0", "tcp") >>,
       rule |-> RuleRequestsByName, audit |-> <<>>],
      [obj |-> << ObjectRequest("address", "N1", "10.2.2.2", "24", "tcp"),
                  ObjectRequest("address-group", "g1", "n1, N1", "", "tcp") >>,
       rule |-> RuleRequestsByName, audit |-> <<>>],
      [obj |-> << ObjectRequest("service", "n1", "80, 443", "", ""),
                  ObjectRequest("service-group", "sg", ",", "", "tcp") >>,
       rule |-> RuleRequestsPrefixed, audit |-> <<>>],
      [obj |-> << ObjectRequest("service-group", "sg", "n1", "", "tcp"),
                  ObjectRequest("tag", "t1", "x", "", "tcp") >>,
       rule |-> RuleRequestsPrefixed, audit |-> <<>>] }

\* the device configuration of these runs: group g1 and rule r1 name no object
ApprovalSnapshots == {Snapshot(List(<<>>))}

InitApprove ==
    /\ InitIdle
    /\ store = EmptyDB
    /\ \E s \in ApprovalSnapshots : pool = {s}
    /\ reqs \in RequestTables

\* phases 1 to 5 on a store, in the order sync_all runs them
Rebuild(db, fw_config, topo) ==
    LET wiped == Wipe(db)
        a == sync_address_objects(wiped.addr, fw_config.address)
        s == sync_service_objects(wiped.svc, fw_config.service)
        leaves == [wiped EXCEPT !.addr = a.tbl, !.svc = s.tbl]
        g == sync_address_groups(leaves, fw_config.address_group, a.map)
        r == sync_security_rules(g.db, fw_config.rules, Len(fw_config.rules),
                                 g.map, s.map)
    IN  [err |-> r.err, db |-> sync_network_topology(r.db, topo)]

\* a whole sync_all call while no other call is under way: the flag is found
\* clear, the phases run, and the transaction is committed or rolled back
sync_all(c) ==
    /\ Quiet
    /\ ~sync_lock
    /\ calls < MaxCalls
    /\ calls' = calls + 1
    /\ \E fw_config \in pool, topo \in Topologies :
          LET new == Rebuild(store, fw_config, topo)
          IN  /\ snap' = [snap EXCEPT ![c] = fw_config]
              /\ \/ /\ ~new.err
                    /\ store' = new.db
                    /\ last_sync_time' = calls + 1
                    /\ ret' = [ret EXCEPT ![c] = "true"]
                    /\ path' = [path EXCEPT ![c] = "ok"]
                    /\ okHist' = Resynced(fw_config, new.db)
                 \/ /\ store' = RolledBack(store, new.db)
                    /\ ret' = [ret EXCEPT ![c] = "false"]
                    /\ path' = [path EXCEPT ![c] = IF new.err THEN "rules" ELSE "commit"]
                    /\ UNCHANGED <<last_sync_time, okHist>>
    /\ UNCHANGED <<sess, pc, sync_lock, pool, entry, resObj, resOut, reqs, appr, approving,
                   look>>

NextApprove ==
    \/ sync_all("worker")
    \/ \E id \in DOMAIN reqs.obj : approve_object(id)
    \/ \E id \in DOMAIN reqs.rule : approve_single_rule(id)

SpecApprove == InitApprove /\ [][NextApprove]_vars

-----------------------------------------------------------------------------
(* Requests from creation to approval or rejection *)

\* requests a table holds, and AuditLog rows written, in a run
MaxRequests == 2
MaxAudit == 3

\* data.get(key, default) on the JSON body of a call
DataGet(data, key, default) == IF key \in DOMAIN data THEN data[key] ELSE default

\* the bodies a requester posts to create_rule: one rule name, destination and
\* port, and two sources
RuleBodies ==
    { [rule_name |-> "r1", source_ip |-> src, destination_ip |-> "10.1.1.1",
       service_port |-> "80", from_zone |-> "", to_zone |-> ""] :
      src \in {"n1", "ANY"} }

\* the bodies an administrator posts to update_pending_rule: a key may be left out
RuleUpdates == { [to_zone |-> "dmz"], [source_ip |-> "n1"], [source_ip |-> "ANY"] }

\* the bodies posted to create_object_request: an address and an empty value
ObjectBodies ==
    { [type |-> "address", name |-> "n1", value |-> v, prefix |-> "", protocol |-> "tcp"] :
      v \in {"10.1.1.1", ""} }

\* the bodies posted to update_pending_object
ObjectUpdates == { [value |-> "10.2.2.2"], [value |-> "!"], [prefix |-> "24"] }

\* the bodies posted to the two rejections: with a reason and without
Reasons == { [reason |-> "dup"], << >> }

\* validate_object_input on the values of the model: an empty value is
\* refused, an address is an IP interface or a host name of three characters
\* or more, a service is a list of ports, anything else passes
validate_object_input(obj_type, value) ==
    IF value = "" THEN FALSE
    ELSE CASE obj_type = "address" -> value \in {"10.1.1.1", "10.2.2.2", "10.3.0.0/16"}
           [] obj_type = "service" -> value \in {"80", "443", "80, 443"}
           [] OTHER -> TRUE

\* the call as the approvals record it
Answer(op, id, code) == [NoCall EXCEPT !.op = op, !.id = id, !.code = code]

\* the first pending RuleRequest of the body's source, destination and port
Existing(tbl, data) ==
    LET same == {i \in DOMAIN tbl :
                    /\ tbl[i].source_ip = data.source_ip
                    /\ tbl[i].destination_ip = data.destination_ip
                    /\ tbl[i].service_port = data.service_port
                    /\ tbl[i].status = "Pending"}
    IN  IF same = {} THEN 0 ELSE CHOOSE i \in same : \A j \in same : i <= j

\* a requester posts a rule request: refused while a pending one has the
\* same source, destination and port; the commit may fail
create_rule(data) ==
    /\ Quiet
    /\ Len(reqs.rule) < MaxRequests
    /\ LET existing == Existing(reqs.rule, data)
           new_req == RuleRequest(data.rule_name, data.source_ip, data.destination_ip,
                                  data.service_port, data.from_zone, data.to_zone)
       IN  \/ /\ existing # 0
              /\ appr' = Answer("create_rule", existing, 200)
              /\ UNCHANGED reqs
           \/ /\ existing = 0
              /\ appr' = Answer("create_rule", 0, 200)
              /\ reqs' = [reqs EXCEPT !.rule = Append(@, new_req)]
           \/ /\ existing = 0
              /\ appr' = Answer("create_rule", 0, 500)
              /\ UNCHANGED reqs
    /\ UNCHANGED <<store, sess, pc, snap, ret, sync_lock, last_sync_time, calls, pool,
                   entry, path, okHist, resObj, resOut, approving, look>>

\* rule_req.status != 'Pending'
NotEditable(r) == r.status # "Pending"

\* an administrator edits rule request id: only a pending one, each field
\* from the body or left as it is
update_pending_rule(id, data) ==
    /\ Quiet
    /\ id \in DOMAIN reqs.rule
    /\ LET r == reqs.rule[id]
           edited == [r EXCEPT !.rule_name = DataGet(data, "rule_name", @),
                               !.source_ip = DataGet(data, "source_ip", @),
                               !.destination_ip = DataGet(data, "destination_ip", @),
                               !.from_zone = DataGet(data, "from_zone", @),
                               !.to_zone = DataGet(data, "to_zone", @),
                               !.service_port = DataGet(data, "service_port", @),
                               !.protocol = DataGet(data, "protocol", @)]
       IN  \/ /\ NotEditable(r)
              /\ appr' = Answer("update_pending_rule", id, 400)
              /\ UNCHANGED reqs
           \/ /\ ~NotEditable(r)
              /\ appr' = Answer("update_pending_rule", id, 200)
              /\ reqs' = [reqs EXCEPT !.rule[id] = edited]
           \/ /\ ~NotEditable(r)
              /\ appr' = Answer("update_pending_rule", id, 500)
              /\ UNCHANGED reqs
    /\ UNCHANGED <<store, sess, pc, snap, ret, sync_lock, last_sync_time, calls, pool,
                   entry, path, okHist, resObj, resOut, approving, look>>

\* the request after a rejection: whatever its status was
Rejected(r, notes) == [r EXCEPT !.status = "Rejected", !.admin_notes = notes]

\* an administrator rejects rule request id
reject_single_rule(id, data) ==
    /\ Quiet
    /\ id \in DOMAIN reqs.rule
    /\ appr' = Answer("reject_single_rule", id, 200)
    /\ reqs' = [reqs EXCEPT !.rule[id] =
                   Rejected(@, DataGet(data, "reason", "no reason given"))]
    /\ UNCHANGED <<store, sess, pc, snap, ret, sync_lock, last_sync_time, calls, pool,
                   entry, path, okHist, resObj, resOut, approving, look>>

\* a requester posts an object request: the value is validated first
create_object_request(data) ==
    /\ Quiet
    /\ Len(reqs.obj) < MaxRequests
    /\ LET new_req == ObjectRequest(data.type, data.name, data.value, data.prefix,
                                    data.protocol)
       IN  \/ /\ ~validate_object_input(data.type, data.value)
              /\ appr' = Answer("create_object_request", 0, 400)
              /\ UNCHANGED reqs
           \/ /\ validate_object_input(data.type, data.value)
              /\ appr' = Answer("create_object_request", 0, 200)
              /\ reqs' = [reqs EXCEPT !.obj = Append(@, new_req)]
           \/ /\ validate_object_input(data.type, data.value)
              /\ appr' = Answer("create_object_request", 0, 500)
              /\ UNCHANGED reqs
    /\ UNCHANGED <<store, sess, pc, snap, ret, sync_lock, last_sync_time, calls, pool,
                   entry, path, okHist, resObj, resOut, approving, look>>

\* an administrator rejects object request id, and the rejection is logged
reject_object(id, data) ==
    /\ Quiet
    /\ id \in DOMAIN reqs.obj
    /\ Len(reqs.audit) < MaxAudit
    /\ appr' = Answer("reject_object", id, 200)
    /\ reqs' = [reqs EXCEPT !.obj[id] =
                                Rejected(@, DataGet(data, "reason", "rejected by admin")),
                            !.audit = Append(@, [action |-> "REJECT_OBJECT",
                                                 resource_name |-> reqs.obj[id].name])]
    /\ UNCHANGED <<store, sess, pc, snap, ret, sync_lock, last_sync_time, calls, pool,
                   entry, path, okHist, resObj, resOut, approving, look>>

\* an administrator edits object request id: only a pending one, and the
\* edited value is validated before the commit
update_pending_object(id, data) ==
    /\ Quiet
    /\ id \in DOMAIN reqs.obj
    /\ LET r == reqs.obj[id]
           edited == [r EXCEPT !.name = DataGet(data, "name", @),
                               !.value = DataGet(data, "value", @),
                               !.prefix = DataGet(data, "prefix", @),
                               !.protocol = DataGet(data, "protocol", @)]
           is_valid == validate_object_input(edited.obj_type, edited.value)
       IN  \/ /\ NotEditable(r)
              /\ appr' = Answer("update_pending_object", id, 400)
              /\ UNCHANGED reqs
           \/ /\ ~NotEditable(r) /\ ~is_valid
              /\ appr' = Answer("update_pending_object", id, 400)
              /\ UNCHANGED reqs
           \/ /\ ~NotEditable(r) /\ is_valid
              /\ appr' = Answer("update_pending_object", id, 200)
              /\ reqs' = [reqs EXCEPT !.obj[id] = edited]
           \/ /\ ~NotEditable(r) /\ is_valid
              /\ appr' = Answer("update_pending_object", id, 500)
              /\ UNCHANGED reqs
    /\ UNCHANGED <<store, sess, pc, snap, ret, sync_lock, last_sync_time, calls, pool,
                   entry, path, okHist, resObj, resOut, approving, look>>

InitRequests ==
    /\ InitIdle
    /\ store = EmptyDB
    /\ pool = {}
    /\ reqs = NoRequests

\* the rule requests of a run, from creation to approval or rejection
NextRuleRequests ==
    \/ \E data \in RuleBodies : create_rule(data)
    \/ \E id \in DOMAIN reqs.rule, data \in RuleUpdates : update_pending_rule(id, data)
    \/ \E id \in DOMAIN reqs.rule : approve_single_rule(id)
    \/ \E id \in DOMAIN reqs.rule, data \in Reasons : reject_single_rule(id, data)

SpecRuleRequests == InitRequests /\ [][NextRuleRequests]_vars

\* the object requests of a run, from creation to approval or rejection
NextObjectRequests ==
    \/ \E data \in ObjectBodies : create_object_request(data)
    \/ \E id \in DOMAIN reqs.obj, data \in ObjectUpdates : update_pending_object(id, data)
    \/ \E id \in DOMAIN reqs.obj : approve_object(id)
    \/ \E id \in DOMAIN reqs.obj, data \in Reasons : reject_object(id, data)

SpecObjectRequests == InitRequests /\ [][NextObjectRequests]_vars

-----------------------------------------------------------------------------
(* Approvals of object requests side by side *)

\* create calls the device receives in a run
MaxCreates == 3

\* the rows a session holds for the request it read: none when a row of that
\* name was found in the store at the time of the query
Added(db, r) ==
    LET pending == ObjectUpsert(db, r)
    IN  [addr |-> pending.addr \ db.addr, svc |-> pending.svc \ db.svc]

\* the flush of a commit: every row of the session is inserted under the next id
Flushed(db, add) ==
    [db EXCEPT !.addr = @ \cup {[o EXCEPT !.id = NextId(db.addr)] : o \in add.addr},
               !.svc = @ \cup {[o EXCEPT !.id = NextId(db.svc)] : o \in add.svc}]

\* thread t reads object request id: a request that is not pending is
\* answered 404 and a service group without members 400; otherwise the
\* panos object is built and the inventory row is added to the session
\* unless a row of that name is found
approve_read(t, id) ==
    /\ approving.call[t].pc = "idle"
    /\ id \in DOMAIN reqs.obj
    /\ LET r == reqs.obj[id]
       IN  \/ /\ r.status # "Pending" \/ EmptyServiceGroup(r)
              /\ UNCHANGED approving
           \/ /\ r.status = "Pending" /\ ~EmptyServiceGroup(r)
              /\ approving' = [approving EXCEPT !.call[t] =
                                  [pc |-> "built", id |-> id, add |-> Added(store, r)]]
    /\ UNCHANGED <<store, sess, pc, snap, ret, sync_lock, last_sync_time, calls, pool,
                   entry, path, okHist, resObj, resOut, reqs, appr, look>>

\* thread t calls create() on the device, or goes on without a call for a
\* type no panos object is built for; a call that raises ends the approval
\* with a rollback
approve_create(t) ==
    /\ approving.call[t].pc = "built"
    /\ LET id == approving.call[t].id
           r == reqs.obj[id]
       IN  \/ /\ ~HasPanObject(r)
              /\ approving' = [approving EXCEPT !.call[t].pc = "created"]
           \/ /\ HasPanObject(r)
              /\ Len(approving.device) < MaxCreates
              /\ \E ok \in BOOLEAN :
                    approving' =
                        [approving EXCEPT
                            !.device = Append(@, [id |-> id, ok |-> ok]),
                            !.call[t] = IF ok THEN [@ EXCEPT !.pc = "created"]
                                        ELSE NoApproval]
    /\ UNCHANGED <<store, sess, pc, snap, ret, sync_lock, last_sync_time, calls, pool,
                   entry, path, okHist, resObj, resOut, reqs, appr, look>>

\* thread t sets the status, adds the audit row and commits; a commit that
\* raises is rolled back
approve_commit(t) ==
    /\ approving.call[t].pc = "created"
    /\ LET id == approving.call[t].id
           r == reqs.obj[id]
       IN  \/ /\ store' = Flushed(store, approving.call[t].add)
              /\ reqs' = [reqs EXCEPT !.obj[id].status = "Approved",
                                      !.audit = Append(@, [action |-> "APPROVE_OBJECT",
                                                           resource_name |-> r.name])]
           \/ /\ store' = RolledBack(store, Flushed(store, approving.call[t].add))
              /\ UNCHANGED reqs
    /\ approving' = [approving EXCEPT !.call[t] = NoApproval]
    /\ UNCHANGED <<sess, pc, snap, ret, sync_lock, last_sync_time, calls, pool,
                   entry, path, okHist, resObj, resOut, appr, look>>

InitThreads ==
    /\ InitIdle
    /\ store = EmptyDB
    /\ pool = {}
    /\ reqs \in RequestTables

NextThreads ==
    \E t \in Threads :
        \/ \E id \in DOMAIN reqs.obj : approve_read(t, id)
        \/ approve_create(t)
        \/ approve_commit(t)

SpecThreads == InitThreads /\ [][NextThreads]_vars

-----------------------------------------------------------------------------
(* The policy match: reverse lookup and shadow detection *)

\* a configuration with a group inside a group, a rule whose sources vary and
\* a rule between two zones that names no destination and no service
LookupSnapshot(members, sources) ==
    [address |->
        << ("name" :> Str("n1")) @@ ("ip-netmask" :> Str("10.1.1.1")),
           ("name" :> Str("n2")) @@ ("ip-netmask" :> Str("10.2.2.2")) >>,
     service |->
        << ("name" :> Str("s1")) @@ ("destination-port" :> Str("80")),
           ("name" :> Str("s2")) @@ ("destination-port" :> Str("443")) >>,
     address_group |->
        << ("name" :> Str("g1")) @@ ("static" :> members),
           ("name" :> Str("g2")) @@ ("static" :> List(<<"n1">>)) >>,
     rules |->
        << ("name" :> Str("r1")) @@ ("source" :> sources)
               @@ ("destination" :> List(<<"n2">>)) @@ ("service" :> List(<<"s1">>)),
           ("name" :> Str("r2")) @@ ("from" :> List(<<"trust">>))
               @@ ("to" :> List(<<"dmz">>)) @@ ("source" :> List(<<"g2">>))
               @@ ("destination" :> List(<<"any">>)) @@ ("service" :> List(<<>>)) >>]

LookupSnapshots ==
    { LookupSnapshot(List(<<m>>), List(<<src>>)) :
        m \in {"g2", "n1", "n2"}, src \in {"g1", "n1", "any"} }

\* what is typed into the policy match: nothing, any, a name in either case, a
\* value, a group and a name the inventory does not hold
LookupInputs == {"", "ANY", "n1", "N1", "10.1.1.1", "g2", "zz"}

\* the bodies posted to check_shadow
ShadowBodies ==
    [source_ip : {"n1", "any", ""}, destination_ip : {"10.2.2.2", "zz"},
     service_port : {"80", "22"}, from_zone : {"", "trust"}, to_zone : {"", "any"}]

\* the AddressObject rows joined to address_group_members as parents of the ids
Parents(db, ids) ==
    {g \in db.addr : \E q \in BagToSet(db.agm) : q.parent_id = g.id /\ q.member_id \in ids}

\* the names related to an input, as a set (the list is built from a set)
get_all_relevant_names(db, input_val) ==
    IF input_val = "" \/ Lower(input_val) = "any" THEN {"any"}
    ELSE LET objs == {o \in db.addr :
                         Lower(o.name) = Lower(input_val) \/ o.value = input_val}
             groups == Parents(db, {o.id : o \in objs})
         IN  IF objs = {} THEN {input_val}
             ELSE {o.name : o \in objs} \cup {g.name : g \in groups}

\* the names of the rows a relationship collection of the rule holds
NamesOf(tbl, link, rule_id) == {o.name : o \in {x \in tbl : x.id \in Collection(link, rule_id)}}

\* SecurityRule.<collection>.any(AddressObject.name.in_(names))
AnyIn(db, link, rule_id, names) == NamesOf(db.addr, link, rule_id) \cap names # {}

\* the zone filters of the query: a zone that is given and is not 'any'
InZones(r, data) ==
    /\ (data.from_zone # "" /\ data.from_zone # "any") => r.from_zone = data.from_zone
    /\ (data.to_zone # "" /\ data.to_zone # "any") => r.to_zone = data.to_zone

\* the ports of the services of a rule
Ports(db, rule_id) == {o.port : o \in {x \in db.svc : x.id \in Collection(db.rvm, rule_id)}}

\* the rules check_shadow names for a body; none when source or destination is empty
Shadowing(db, data) ==
    LET src_names == get_all_relevant_names(db, data.source_ip)
        dst_names == get_all_relevant_names(db, data.destination_ip)
        matches == {r \in db.rule :
                       /\ InZones(r, data)
                       /\ AnyIn(db, db.rsm, r.id, src_names)
                       /\ AnyIn(db, db.rdm, r.id, dst_names)}
    IN  IF data.source_ip = "" \/ data.destination_ip = "" THEN {}
        ELSE {r.name : r \in {m \in matches :
                                 \/ Ports(db, m.id) = {}
                                 \/ data.service_port \in Ports(db, m.id)
                                 \/ "any" \in Ports(db, m.id)}}

\* the policy match resolves an input to the names related to it
Lookup(input_val) ==
    /\ look' = [op |-> "get_all_relevant_names", input |-> input_val,
                out |-> get_all_relevant_names(store, input_val)]
    /\ UNCHANGED <<store, sess, pc, snap, ret, sync_lock, last_sync_time, calls, pool,
                   entry, path, okHist, resObj, resOut, reqs, appr, approving>>

\* a requester asks whether a rule of the inventory already allows the traffic
check_shadow(data) ==
    /\ LET shadowing_rules == Shadowing(store, data)
       IN  look' = [op |-> "check_shadow", input |-> data,
                    out |-> [status |-> IF shadowing_rules # {} THEN "shadowed"
                                        ELSE "clear",
                             rules |-> shadowing_rules]]
    /\ UNCHANGED <<store, sess, pc, snap, ret, sync_lock, last_sync_time, calls, pool,
                   entry, path, okHist, resObj, resOut, reqs, appr, approving>>

\* the inventory is the one a resync of a configuration has committed
InitLookup ==
    /\ InitIdle
    /\ reqs = NoRequests
    /\ \E fw_config \in LookupSnapshots :
          /\ pool = {fw_config}
          /\ store = Rebuild(EmptyDB, fw_config, NoTopology).db

NextLookup ==
    \/ \E input_val \in LookupInputs : Lookup(input_val)
    \/ \E data \in ShadowBodies : check_shadow(data)

SpecLookup == InitLookup /\ [][NextLookup]_vars

-----------------------------------------------------------------------------
(* The routes of administrators, called by any user *)

\* the user entry of a session: absent, a plain string, or a dict with a role
NoUser == [t |-> "none", role |-> ""]
UserName == [t |-> "str", role |-> ""]
UserDict(role) == [t |-> "dict", role |-> role]

\* the sessions of the callers: nobody, a user stored as a string, a user and
\* an administrator stored as dicts, and a session with the is_admin flag
Sessions ==
    { [is_admin |-> FALSE, user |-> NoUser], [is_admin |-> FALSE, user |-> UserName],
      [is_admin |-> FALSE, user |-> UserDict("user")],
      [is_admin |-> FALSE, user |-> UserDict("admin")],
      [is_admin |-> TRUE, user |-> UserName] }

\* the bodies posted to the routes in these runs
AdminBodies ==
    [reject |-> [reason |-> "dup"], object |-> [value |-> "10.2.2.2"],
     rule |-> [source_ip |-> "ANY"]]

\* variant: any caller whose session holds a user entry passes
is_logged_in_check(session) ==
    session.is_admin \/ session.user.t # "none"

\* session.get('is_admin'), or a user dict whose role is 'admin'
is_admin_check(session) ==
    session.is_admin \/ (session.user.t = "dict" /\ session.user.role = "admin")

\* is_admin_check as the object and operations routes import it
fw_manager_is_admin_check(session) == is_admin_check(session)

\* the answer 403: nothing is read, written or sent to the device
Denied(op, id) ==
    /\ appr' = Answer(op, id, 403)
    /\ UNCHANGED <<store, sess, pc, snap, ret, sync_lock, last_sync_time, calls, pool,
                   entry, path, okHist, resObj, resOut, reqs, approving, look>>

\* the six routes on requests, each behind the check of the caller
route_approve_object(session, id) ==
    IF fw_manager_is_admin_check(session) THEN approve_object(id)
    ELSE id \in DOMAIN reqs.obj /\ Denied("approve_object", id)

route_reject_object(session, id, data) ==
    IF fw_manager_is_admin_check(session) THEN reject_object(id, data)
    ELSE id \in DOMAIN reqs.obj /\ Denied("reject_object", id)

route_update_pending_object(session, id, data) ==
    IF fw_manager_is_admin_check(session) THEN update_pending_object(id, data)
    ELSE id \in DOMAIN reqs.obj /\ Denied("update_pending_object", id)

route_approve_single_rule(session, id) ==
    IF is_admin_check(session) THEN approve_single_rule(id)
    ELSE id \in DOMAIN reqs.rule /\ Denied("approve_single_rule", id)

route_reject_single_rule(session, id, data) ==
    IF is_admin_check(session) THEN reject_single_rule(id, data)
    ELSE id \in DOMAIN reqs.rule /\ Denied("reject_single_rule", id)

route_update_pending_rule(session, id, data) ==
    IF is_admin_check(session) THEN update_pending_rule(id, data)
    ELSE id \in DOMAIN reqs.rule /\ Denied("update_pending_rule", id)

\* the manual resync: the configuration is fetched and sync_all called for
\* an administrator only; a resync that returns true is logged, one that
\* returns false is answered 409 and a fetch that raises 500; the topology
\* queries of phase 5 fail in these runs
trigger_firewall_sync(session) ==
    IF ~fw_manager_is_admin_check(session) THEN Denied("trigger_firewall_sync", 0)
    ELSE
        /\ Quiet
        /\ ~sync_lock
        /\ calls < MaxCalls
        /\ calls' = calls + 1
        /\ \/ /\ appr' = Answer("trigger_firewall_sync", 0, 500)
              /\ UNCHANGED <<store, snap, ret, last_sync_time, path, okHist, reqs>>
           \/ \E fw_config \in pool, topo \in {NoTopology} :
                 LET new == Rebuild(store, fw_config, topo)
                 IN  /\ snap' = [snap EXCEPT !["manual"] = fw_config]
                     /\ \/ /\ ~new.err
                           /\ store' = new.db
                           /\ last_sync_time' = calls + 1
                           /\ ret' = [ret EXCEPT !["manual"] = "true"]
                           /\ path' = [path EXCEPT !["manual"] = "ok"]
                           /\ okHist' = Resynced(fw_config, new.db)
                           /\ appr' = Answer("trigger_firewall_sync", 0, 200)
                           /\ reqs' = [reqs EXCEPT !.audit =
                                          Append(@, [action |-> "MANUAL_SYNC",
                                                     resource_name |-> "Firewall Inventory"])]
                        \/ /\ store' = RolledBack(store, new.db)
                           /\ ret' = [ret EXCEPT !["manual"] = "false"]
                           /\ path' = [path EXCEPT !["manual"] =
                                          IF new.err THEN "rules" ELSE "commit"]
                           /\ appr' = Answer("trigger_firewall_sync", 0, 409)
                           /\ UNCHANGED <<last_sync_time, okHist, reqs>>
        /\ UNCHANGED <<sess, pc, sync_lock, pool, entry, resObj, resOut, approving, look>>

\* the request tables of these runs: one pending object request, or one
\* pending rule request
AdminRequests ==
    { [NoRequests EXCEPT
          !.obj = << ObjectRequest("address", "n1", "10.1.1.1", "", "tcp") >>],
      [NoRequests EXCEPT
          !.rule = << RuleRequest("r1", "N1", "10.1.1.1", "80", "", "dmz") >>] }

InitAdmin ==
    /\ InitIdle
    /\ store = EmptyDB
    /\ \E s \in ApprovalSnapshots : pool = {s}
    /\ reqs \in AdminRequests

NextAdmin ==
    \E session \in Sessions :
        \/ \E id \in DOMAIN reqs.obj : route_approve_object(session, id)
        \/ \E id \in DOMAIN reqs.obj : route_reject_object(session, id, AdminBodies.reject)
        \/ \E id \in DOMAIN reqs.obj :
              route_update_pending_object(session, id, AdminBodies.object)
        \/ \E id \in DOMAIN reqs.rule : route_approve_single_rule(session, id)
        \/ \E id \in DOMAIN reqs.rule :
              route_reject_single_rule(session, id, AdminBodies.reject)
        \/ \E id \in DOMAIN reqs.rule :
              route_update_pending_rule(session, id, AdminBodies.rule)
        \/ trigger_firewall_sync(session)

SpecAdmin == InitAdmin /\ [][NextAdmin]_vars

-----------------------------------------------------------------------------
(* Resyncs of records with every shape of value field *)

\* the keys sync_address_objects reads, in the order it reads them
CandidateKeys == <<"ip-netmask", "ip_netmask", "ip-range", "ip_range", "fqdn", "value">>

\* what a record may hold under a key: None, an empty string, a string, a list
\* of two strings, an empty list
FieldOf(key, kind) ==
    CASE kind = "none" -> None_
      [] kind = "empty" -> Str("")
      [] kind = "str" -> Str("val-" \o key)
      [] kind = "list" -> List(<<"first-" \o key, "second-" \o key>>)
      [] kind = "emptylist" -> List(<<>>)

FieldKinds == {"none", "empty", "str", "list", "emptylist"}

\* address records named n1 with none, one or two of the keys
AddressRecords ==
    {[name |-> Str("n1")]}
      \cup {("name" :> Str("n1")) @@ (CandidateKeys[i] :> FieldOf(CandidateKeys[i], k)) :
               i \in DOMAIN CandidateKeys, k \in FieldKinds}
      \cup {("name" :> Str("n1")) @@ (CandidateKeys[i] :> FieldOf(CandidateKeys[i], k))
                                  @@ (CandidateKeys[j] :> FieldOf(CandidateKeys[j], l)) :
               <<i, j>> \in {p \in (DOMAIN CandidateKeys) \X (DOMAIN CandidateKeys) : p[1] < p[2]},
               <<k, l>> \in FieldKinds \X FieldKinds}

\* service records with and without each of the port keys and the protocol
ServiceRecords ==
    << ("name" :> Str("s1")) @@ ("destination-port" :> Str("80")) @@ ("protocol" :> Str("udp")),
       [name |-> Str("s2")],
       ("name" :> Str("s3")) @@ ("destination_port" :> Str("8080")),
       ("name" :> Str("s4")) @@ ("destination-port" :> Str(""))
           @@ ("destination_port" :> Str("8080")),
       ("name" :> Str("s5")) @@ ("destination-port" :> None_) @@ ("protocol" :> None_),
       ("name" :> Str("s6")) @@ ("destination-port" :> Str("80"))
           @@ ("destination_port" :> Str("8080")) >>

\* rule records with and without each of the zone keys and the action
RuleRecords ==
    << [name |-> Str("q1")],
       ("name" :> Str("q2")) @@ ("fromzone" :> List(<<"trust", "dmz">>))
           @@ ("tozone" :> List(<<"dmz">>)) @@ ("action" :> Str("deny")),
       ("name" :> Str("q3")) @@ ("fromzone" :> List(<<>>)) @@ ("from" :> List(<<"dmz">>))
           @@ ("tozone" :> None_) @@ ("to" :> List(<<>>)),
       ("name" :> Str("q4")) @@ ("fromzone" :> Str("trust")) @@ ("to" :> Str(""))
           @@ ("action" :> None_),
       ("name" :> Str("q5")) @@ ("from" :> List(<<"trust">>)) @@ ("to" :> List(<<"dmz", "trust">>)),
       ("name" :> Str("q6")) @@ ("fromzone" :> List(<<"trust">>)) @@ ("from" :> List(<<"dmz">>))
           @@ ("tozone" :> List(<<"dmz">>)) @@ ("to" :> List(<<"trust">>))
           @@ ("action" :> Str("allow")) >>

FieldSnapshot(rec) ==
    [address |-> <<rec>>, service |-> ServiceRecords, address_group |-> <<>>,
     rules |-> RuleRecords]

InitFields ==
    /\ InitIdle
    /\ reqs = NoRequests
    /\ store = EmptyDB
    /\ \E rec \in AddressRecords : pool = {FieldSnapshot(rec)}

NextFields == sync_all("worker")

SpecFields == InitFields /\ [][NextFields]_vars

-----------------------------------------------------------------------------
(* Resyncs of records with empty, missing and repeated names *)

\* a configuration whose lists hold a name twice in two cases, an empty name
\* and a record without a name; a group named like an address, a group named
\* twice, and a group listed after the group that names it
PhaseSnapshot(members) ==
    [address |->
        << ("name" :> Str("n1")) @@ ("ip-netmask" :> Str("10.1.1.1")),
           ("name" :> Str("")) @@ ("ip-netmask" :> Str("10.2.2.2")),
           ("name" :> Str("N1")) @@ ("ip-netmask" :> Str("10.9.9.9")),
           ("ip-netmask" :> Str("10.2.2.2")),
           ("name" :> Str("n2")) >>,
     service |->
        << ("name" :> Str("n1")) @@ ("destination-port" :> Str("80")),
           ("name" :> Str("N1")) @@ ("destination-port" :> Str("443")),
           ("name" :> None_) @@ ("destination-port" :> Str("53")) >>,
     address_group |->
        << ("name" :> Str("N1")) @@ ("static" :> List(<<"n2">>)),
           ("name" :> Str("g1")) @@ ("static" :> members),
           ("name" :> Str("G1")) @@ ("static" :> List(<<"n2">>)),
           ("name" :> Str("g2")) @@ ("static" :> List(<<"n1">>)),
           ("name" :> Str("")) @@ ("static" :> List(<<"n1">>)) >>,
     rules |->
        << ("name" :> Str("r1")) @@ ("source" :> List(<<"n1">>))
               @@ ("destination" :> List(<<"g1">>)) @@ ("service" :> List(<<"n1">>)),
           ("name" :> Str("R1")) @@ ("source" :> List(<<"n2">>))
               @@ ("destination" :> List(<<"n2">>)) @@ ("service" :> List(<<>>)),
           ("name" :> Str("")) @@ ("source" :> List(<<"n1">>))
               @@ ("destination" :> List(<<>>)) @@ ("service" :> List(<<>>)),
           ("name" :> Str("r0")) @@ ("source" :> List(<<"g2">>))
               @@ ("destination" :> List(<<"zz">>)) @@ ("service" :> List(<<"N1">>)) >>]

\* the member lists of group g1 in these runs
PhaseMembers == {List(<<"g2", "n1">>), List(<<"N1", "zz">>), Str("n1"), List(<<>>)}

PhaseSnapshots == {PhaseSnapshot(members) : members \in PhaseMembers}

InitPhases ==
    /\ InitIdle
    /\ reqs = NoRequests
    /\ store = EmptyDB
    /\ \E s \in PhaseSnapshots : pool = {s}

NextPhases == SyncStep("worker")

SpecPhases == InitPhases /\ [][NextPhases]_vars

-----------------------------------------------------------------------------
(* Properties *)

\* inside the wipe and rebuild phases of sync_all
InRebuild(c) == pc[c] \in {"wipe", "leaf", "group", "rules", "topo", "commit"}

\* the call raised in one of the phases or at commit
Failed(c) == path[c] \in {"wipe", "leaf", "group", "rules", "commit"}

LinkRows(db) ==
    BagCardinality(db.agm) + BagCardinality(db.rsm) + BagCardinality(db.rdm)
        + BagCardinality(db.rvm)

CoreTables(db) == <<db.rule, db.addr, db.svc, db.agm, db.rsm, db.rdm, db.rvm>>

\* C1: single-flight: in no reachable state are two sync_all calls inside the
\* wipe and rebuild phases at once.
C1_SingleFlight ==
    \A c, d \in Callers : (c # d /\ InRebuild(c)) => ~InRebuild(d)

\* C2: a call that finds the flag set returns false in that very step and
\* leaves the store, every session, the last-sync time and the flag as they are.
C2_SkipTouchesNothing ==
    [][\A c \in Callers :
          (pc[c] = "check" /\ sync_lock /\ pc'[c] # "check") =>
              /\ pc'[c] = "back" /\ ret'[c] = "false"
              /\ store' = store /\ sess' = sess
              /\ last_sync_time' = last_sync_time
              /\ sync_lock' = sync_lock]_vars

\* a skipped call has returned and the flag of the running call is still set
C2_Witness ==
    \E c \in Callers : pc[c] = "back" /\ path[c] = "skipped" /\ sync_lock

\* C3: the flag is never left set by a call that has returned: whenever it is
\* set, a call is between the line that sets it and the line that clears it.
C3_FlagClearedOnExit == sync_lock => \E c \in Callers : InSync(c)

\* a call that set the flag failed and returned, and the flag is clear
C3_Witness ==
    \E c \in Callers :
        /\ pc[c] = "back" /\ Failed(c) /\ ~sync_lock
        /\ \A d \in Callers : ~InSync(d)

\* C4: no failure escapes sync_all: a call that has returned has returned true
\* or false, false if it raised in a phase or at commit, and true only if it
\* committed.
C4_NoEscape ==
    \A c \in Callers :
        pc[c] = "back" =>
            /\ ret[c] \in {"true", "false"}
            /\ Failed(c) => ret[c] = "false"
            /\ ret[c] = "true" <=> path[c] = "ok"

\* a call whose commit raised has returned false
C4_Witness ==
    \E c \in Callers : pc[c] = "back" /\ path[c] = "commit" /\ ret[c] = "false"

\* C5: after a call that raised, the committed store is what it was when the
\* call started (no other call having committed in between).
C5_RollbackAtomicity ==
    \A c \in Callers :
        (pc[c] = "back" /\ Failed(c) /\ entry[c].clean) => store = entry[c].store

\* a call raised while inserting, over a store that held an inventory
C5_Witness ==
    \E c \in Callers :
        /\ pc[c] = "back" /\ path[c] \in {"leaf", "group"} /\ entry[c].clean
        /\ store.rule # {} /\ store = entry[c].store

\* C6 as stated: after a call that raised in phase 4 the tables cleared in
\* phase 1 hold no rows.
C6_EmptyAfterRuleFailure ==
    \A c \in Callers :
        (pc[c] = "back" /\ path[c] = "rules") =>
            (LinkRows(store) = 0 /\ store.rule = {} /\ store.addr = {} /\ store.svc = {})

\* C6 amended: after a call that raised in phase 4 the tables cleared in
\* phase 1 hold the rows they held when the call started.
C6_UnchangedAfterRuleFailure ==
    \A c \in Callers :
        (pc[c] = "back" /\ path[c] = "rules" /\ entry[c].clean) =>
            CoreTables(store) = CoreTables(entry[c].store)

\* phase 4 raised over a store whose association tables held rows
C6_Witness ==
    \E c \in Callers :
        /\ pc[c] = "back" /\ path[c] = "rules" /\ entry[c].clean
        /\ LinkRows(store) > 0

\* C7: two successful resyncs in a row from the same snapshot yield the same
\* inventory: the same row counts and the same association pairs by name.
C7_IdempotentResync ==
    (Len(okHist) = 2 /\ okHist[1].snap = okHist[2].snap) =>
        okHist[1].view = okHist[2].view

\* the same snapshot was synchronised twice and produced rules and links
C7_Witness ==
    /\ Len(okHist) = 2 /\ okHist[1].snap = okHist[2].snap
    /\ okHist[2].view.nrule = 2 /\ okHist[2].view.agm # {}

NoDuplicate(tbl) == \A r \in BagToSet(tbl) : CopiesIn(r, tbl) = 1

C9_NoDuplicateMemberRows == NoDuplicate(store.agm)

\* the group of the committed snapshot names one member in two cases
C9_Witness ==
    /\ Len(okHist) > 0
    /\ LET static == okHist[Len(okHist)].snap.address_group[1].static
       IN  /\ static.t = "list"
           /\ \E i, j \in DOMAIN static.v :
                 i # j /\ static.v[i] # static.v[j]
                       /\ Lower(static.v[i]) = Lower(static.v[j])
    /\ store.agm # EmptyBag

\* the entities reachable from a set through the membership of groups
RECURSIVE Descend(_, _, _)
Descend(db, S, n) ==
    IF n = 0 THEN S
    ELSE Descend(db,
             S \cup UNION {MemberIds(db, "addr", g) :
                              g \in {x \in S : Present(db.addr, x)
                                                  /\ ObjIn(db.addr, x).is_group}},
             n - 1)

Acyclic(db) ==
    \A g \in db.addr :
        g.id \notin Descend(db, MemberIds(db, "addr", g.id), Cardinality(db.addr))

\* the values of the leaves reachable from an entity, "any" and empty excluded
Content(db, kind, id) ==
    IF kind = "svc"
    THEN {o.port : o \in {x \in db.svc : x.id = id /\ x.port \notin {"", "any"}}}
    ELSE {o.value : o \in {x \in db.addr :
                              /\ x.id \in Descend(db, {id}, Cardinality(db.addr))
                              /\ ~x.is_group
                              /\ x.value \notin {"", "any", "Any", "ANY"}}}

\* C10: on an inventory with acyclic membership the resolver returns each
\* value of the reachable leaves once, without empty and "any" values, and
\* nothing for an absent entity.
C10_ResolverCorrect ==
    (resObj.kind # "none" /\ Acyclic(store)) =>
        /\ ~resOut.err
        /\ resOut.out = SetToBag(Content(store, resObj.kind, resObj.id))

\* a group was resolved that reaches one leaf directly and through a nested group
C10_Witness ==
    /\ resObj.kind = "addr" /\ Acyclic(store)
    /\ \E g, h, a \in store.addr :
          /\ g.id = resObj.id /\ g.is_group /\ h.is_group /\ ~a.is_group
          /\ MemberIds(store, "addr", g.id) = {h.id, a.id}
          /\ MemberIds(store, "addr", h.id) = {a.id}
          /\ resOut.out = SetToBag({a.value})
          /\ a.value = "10.1.1.1"

-----------------------------------------------------------------------------
(* Properties of the rebuilt inventory *)

\* C11: the membership relation of the committed inventory is acyclic: no
\* group reaches itself through the rows of address_group_members.
C11_MembershipAcyclic == Acyclic(store)

-----------------------------------------------------------------------------
(* Properties of the approvals *)

\* the step approves rule request id
RuleApproved(id) ==
    /\ id \in DOMAIN reqs.rule
    /\ reqs.rule[id].status = "Pending"
    /\ reqs'.rule[id].status = "Approved"

\* the rows whose name or value is the identifier up to letter case
SameIgnoringCase(a, b) == Lower(a) = Lower(b)

Named(tbl, identifier) ==
    {o \in tbl : SameIgnoringCase(o.name, identifier)
                    \/ SameIgnoringCase(o.value, identifier)}

\* the SecurityRule row the last approval wrote, in a store
RuleIdIn(db, name) == First({x \in db.rule : x.name = name})

\* a collection after a link call on an identifier: if rows answer to the
\* identifier one of them is a member, and at most one row was added
LinkedOne(before, after, tbl, rule_id, identifier) ==
    /\ (identifier # "" /\ Lower(identifier) # "any"
            /\ Named(before.addr, identifier) # {}) =>
          \E o \in Named(before.addr, identifier) :
              o.id \in Collection(after[tbl], rule_id)
    /\ BagCardinality(after[tbl]) <= BagCardinality(before[tbl]) + 1

\* C12: when approve_single_rule links the source and the destination of a
\* request, an AddressObject whose name or value equals the identifier ignoring
\* letter case becomes a member of the collection, and each link call appends
\* at most one object.
C12_CaseInsensitiveLink ==
    [][\A id \in DOMAIN reqs.rule :
          RuleApproved(id) =>
              LET r == reqs.rule[id]
                  rule_id == RuleIdIn(store', appr'.final_rule_name)
              IN  /\ rule_id # 0
                  /\ LinkedOne(store, store', "rsm", rule_id, r.source_ip)
                  /\ LinkedOne(store, store', "rdm", rule_id, r.destination_ip)]_vars

\* a rule was approved whose source names an object in another letter case and
\* whose destination is the value of an object; both are members now
C12_Witness ==
    /\ appr.op = "approve_single_rule" /\ appr.code = 200
    /\ appr.src # 0 /\ appr.dst # 0
    /\ LET r == reqs.rule[appr.id]
           rule_id == RuleIdIn(store, appr.final_rule_name)
       IN  /\ Present(store.addr, appr.src) /\ Present(store.addr, appr.dst)
           /\ ObjIn(store.addr, appr.src).name # r.source_ip
           /\ ObjIn(store.addr, appr.src).name = Lower(r.source_ip)
           /\ ObjIn(store.addr, appr.dst).value = r.destination_ip
           /\ appr.src \in Collection(store.rsm, rule_id)
           /\ appr.dst \in Collection(store.rdm, rule_id)

\* the number of rows tying an object to a rule
Copies(tbl, rule_id, obj_id) == CopiesIn([rule_id |-> rule_id, obj_id |-> obj_id], tbl)

\* a collection after a link call: untouched when the identifier is empty or
\* "any", unchanged by a second link of the same object, and never given a
\* second row for an object it held
LinkedOnce(before, after, rule_id, guarded, obj_id) ==
    /\ guarded => after = before
    /\ robust_link(after, rule_id, obj_id) = after
    /\ obj_id # 0 =>
          Copies(after, rule_id, obj_id)
              = IF Copies(before, rule_id, obj_id) > 0
                THEN Copies(before, rule_id, obj_id) ELSE 1

\* C13: a link with an empty identifier or "any" in any letter case leaves the
\* collection as it is; linking the same object again leaves the collection
\* as one link left it, so that no approval gives a rule's sources,
\* destinations or services a second row for an object.
C13_LinkIdempotent ==
    [][\A id \in DOMAIN reqs.rule :
          RuleApproved(id) =>
              LET r == reqs.rule[id]
                  rule_id == RuleIdIn(store', appr'.final_rule_name)
                  any(x) == x = "" \/ x \in {"any", "Any", "ANY"}
              IN  /\ LinkedOnce(store.rsm, store'.rsm, rule_id, any(r.source_ip),
                                appr'.src)
                  /\ LinkedOnce(store.rdm, store'.rdm, rule_id,
                                any(r.destination_ip), appr'.dst)
                  /\ LinkedOnce(store.rvm, store'.rvm, rule_id, FALSE, appr'.svc)]_vars

\* with no resync in between, a second request for the same rule and the same
\* source was approved: the source is a member once, and the destination
\* "ANY" added nothing
C13_Witness ==
    /\ calls = 0
    /\ appr.op = "approve_single_rule" /\ appr.code = 200 /\ appr.id = 2
    /\ reqs.rule[1].status = "Approved" /\ reqs.rule[2].status = "Approved"
    /\ reqs.rule[1].source_ip = reqs.rule[2].source_ip
    /\ reqs.rule[2].destination_ip = "ANY"
    /\ appr.src # 0 /\ appr.dst = 0
    /\ LET rule_id == RuleIdIn(store, appr.final_rule_name)
       IN  /\ Copies(store.rsm, rule_id, appr.src) = 1
           /\ BagCardinality(store.rdm) = 0

-----------------------------------------------------------------------------
(* Properties of the stored fields *)

\* a field that is present and neither None, "" nor []
NonEmpty(item, key) ==
    /\ key \in DOMAIN item
    /\ item[key].t # "none"
    /\ item[key] # Str("") /\ item[key] # List(<<>>)

\* the first element of a list, the string itself otherwise
Scalar(x) == x.v[1]

\* the first non-empty field among the keys, d if there is none
FirstNonEmpty(item, keys, d) ==
    LET S == {i \in DOMAIN keys : NonEmpty(item, keys[i])}
    IN  IF S = {} THEN d ELSE Scalar(item[keys[CHOOSE i \in S : \A j \in S : i <= j]])

\* the record of the synchronised snapshot that carries a name
RecordOf(list, name) ==
    list[CHOOSE i \in DOMAIN list : list[i].name = Str(name)]

\* C14: the value stored for an address record is its first non-empty field
\* in the order netmask, range, FQDN, value (hyphenated key before snake_case
\* key), the first element if that field is a list, and "any" if there is
\* none; a service's port is its first non-empty destination port field or
\* "any", and its protocol is "tcp" when the record has no protocol key.
C14_FieldFallback ==
    \A fw_config \in pool :
        /\ \A o \in store.addr :
              o.value = FirstNonEmpty(RecordOf(fw_config.address, o.name),
                                      CandidateKeys, "any")
        /\ \A o \in store.svc :
              LET item == RecordOf(fw_config.service, o.name)
              IN  /\ o.port = FirstNonEmpty(item, <<"destination-port",
                                                   "destination_port">>, "any")
                  /\ o.protocol = IF "protocol" \in DOMAIN item
                                  THEN PyStr(item.protocol) ELSE "tcp"

\* a record whose netmask is empty and whose range is a list was stored with
\* the first element of the range, next to the six services
C14_Witness ==
    /\ Cardinality(store.svc) = 6
    /\ \E fw_config \in pool, o \in store.addr :
          LET item == RecordOf(fw_config.address, o.name)
          IN  /\ "ip-netmask" \in DOMAIN item /\ item["ip-netmask"] = Str("")
              /\ "ip_range" \in DOMAIN item /\ item["ip_range"].t = "list"
              /\ o.value = "first-ip_range"

-----------------------------------------------------------------------------
(* Properties of resyncs and approvals together *)

\* no two rows of a table carry the same name
UniqueNames(tbl) == \A a, b \in tbl : a.name = b.name => a = b

\* C15: whatever resyncs and approvals have run, one at a time, the inventory
\* holds no two AddressObject rows, no two ServiceObject rows and no two
\* SecurityRule rows with the same name.
C15_NoSameNameRows ==
    UniqueNames(store.addr) /\ UniqueNames(store.svc) /\ UniqueNames(store.rule)

\* a resync has run and two requests for one address name and two for one
\* rule name were approved; each name has one row
C15_Witness ==
    /\ calls > 0
    /\ Len(reqs.obj) = 2 /\ Len(reqs.rule) = 2
    /\ reqs.obj[1].name = reqs.obj[2].name
    /\ reqs.rule[1].rule_name = reqs.rule[2].rule_name
    /\ \A i \in 1..2 : reqs.obj[i].status = "Approved" /\ reqs.rule[i].status = "Approved"
    /\ Len(reqs.audit) = 4
    /\ Cardinality({o \in store.addr : o.name = reqs.obj[1].name}) = 1
    /\ Cardinality({x \in store.rule : x.name = appr.final_rule_name}) = 1

\* C16: an approval whose device call failed leaves the committed inventory
\* and association tables, the audit log and the request as they were: the
\* request is still Pending.
C16_DeviceFailureAborts ==
    [][(calls' = calls /\ appr'.device = "fail") =>
          /\ store' = store
          /\ reqs' = reqs
          /\ LET tbl == IF appr'.op = "approve_object" THEN reqs'.obj ELSE reqs'.rule
             IN  tbl[appr'.id].status = "Pending"]_vars

\* the device refused an address whose name the inventory does not hold, so
\* that the session held a new row when the call failed
C16_Witness ==
    /\ appr.op = "approve_object" /\ appr.device = "fail" /\ appr.code = 400
    /\ LET r == reqs.obj[appr.id]
       IN  /\ r.obj_type = "address" /\ r.status = "Pending"
           /\ ~NameTaken(store.addr, r.name)
           /\ ObjectUpsert(store, r) # store
    /\ reqs.audit = <<>>

\* the names a snapshot gives its records
RecordNames(list) == {NameOf(list[i]) : i \in DOMAIN list}

\* C18: the inventory a successful sync_all(S) leaves is determined by S: two
\* resyncs of one snapshot leave the same entities and association pairs by
\* name whatever the store held before each, rows and links created by
\* approvals included, and every entity left carries the name of a record
\* of S.
C18_ResyncAuthoritative ==
    /\ \A i \in DOMAIN okHist :
          LET S == okHist[i].snap
              names == okHist[i].names
          IN  /\ names.addr \subseteq RecordNames(S.address) \cup RecordNames(S.address_group)
              /\ names.svc \subseteq RecordNames(S.service)
              /\ names.rule \subseteq RecordNames(S.rules)
    /\ (Len(okHist) = 2 /\ okHist[1].snap = okHist[2].snap) =>
          /\ okHist[1].view = okHist[2].view
          /\ okHist[1].names = okHist[2].names

\* a service group and a rule that the snapshot does not hold were approved,
\* and linked, before a resync that succeeded; their rows are gone
C18_Witness ==
    /\ ret["worker"] = "true" /\ path["worker"] = "ok" /\ Len(okHist) = 2
    /\ reqs.obj[1].status = "Approved" /\ reqs.obj[1].obj_type = "service-group"
    /\ ~NameTaken(store.svc, reqs.obj[1].name)
    /\ reqs.rule[1].status = "Approved"
    /\ FinalRuleName(reqs.rule[1].rule_name) = "R_9x"
    /\ ~NameTaken(store.rule, "R_9x")
    /\ store.rule # {}

-----------------------------------------------------------------------------
(* Properties of the phases *)

\* C17: a call whose topology fetch or parse failed is not sent to the
\* exception handler by that failure: it goes on to the commit, and once it
\* has committed it returns true and the store holds the rebuilt entity and
\* association tables of phases 1 to 4.
C17_TopologyNonFatal ==
    \A c \in Callers :
        entry[c].topo = "failed" =>
            /\ path[c] \in {"none", "ok", "commit"}
            /\ (pc[c] = "back" /\ path[c] = "ok") =>
                  /\ ret[c] = "true"
                  /\ entry[c].clean =>
                        CoreTables(store)
                            = CoreTables(Rebuild(entry[c].store, snap[c],
                                                 CHOOSE t \in Topologies : t.fails).db)

\* a call whose topology fetch failed has returned true; the store holds the
\* rebuilt rules and no interface
C17_Witness ==
    \E c \in Callers :
        /\ pc[c] = "back" /\ entry[c].topo = "failed" /\ entry[c].clean
        /\ ret[c] = "true" /\ path[c] = "ok"
        /\ store.rule # {} /\ store.iface = {}

-----------------------------------------------------------------------------
(* Properties of the order of the phases and of the names kept *)

RowIds(tbl) == {r.id : r \in tbl}

\* every association row names two rows that exist
NoDangling(db) ==
    /\ \A r \in BagToSet(db.agm) :
          r.parent_id \in RowIds(db.addr) /\ r.member_id \in RowIds(db.addr)
    /\ \A r \in BagToSet(db.rsm) \cup BagToSet(db.rdm) :
          r.rule_id \in RowIds(db.rule) /\ r.obj_id \in RowIds(db.addr)
    /\ \A r \in BagToSet(db.rvm) :
          r.rule_id \in RowIds(db.rule) /\ r.obj_id \in RowIds(db.svc)

\* the first record of its name, ignoring case, among the named records
Winner(list, i) ==
    /\ NameOf(list[i]) # ""
    /\ \A j \in 1..(i - 1) : Lower(NameOf(list[j])) # Lower(NameOf(list[i]))

WinnerNames(list) == {NameOf(list[i]) : i \in {k \in DOMAIN list : Winner(list, k)}}

\* the group records that are the first of their name and named like no address
GroupWinners(S) ==
    {i \in DOMAIN S.address_group :
        /\ Winner(S.address_group, i)
        /\ \A j \in DOMAIN S.address :
              Lower(NameOf(S.address[j])) # Lower(NameOf(S.address_group[i]))}

GroupNames(S) == {NameOf(S.address_group[i]) : i \in GroupWinners(S)}

\* the names a group record lists
StaticOf(g) == MemberSet(Or(Get(g, "static"), Or(Get(g, "static_value"), List(<<>>))))

\* the membership pairs, by name, that a configuration asks for
ExpectedPairs(S) ==
    {p \in GroupNames(S) \X (WinnerNames(S.address) \cup GroupNames(S)) :
        \E i \in GroupWinners(S) :
            /\ NameOf(S.address_group[i]) = p[1]
            /\ \E m \in StaticOf(S.address_group[i]) : Lower(m) = Lower(p[2])}

\* every named address and service record has its row
AllLeaves(db, S) ==
    /\ \A n \in WinnerNames(S.address) : \E o \in db.addr : ~o.is_group /\ o.name = n
    /\ \A n \in WinnerNames(S.service) : \E o \in db.svc : o.name = n

\* every group that is to be inserted has its row
AllGroups(db, S) == \A n \in GroupNames(S) : \E o \in db.addr : o.is_group /\ o.name = n

\* the call is past phase 1: its session holds what it has inserted so far
Building(c) ==
    \/ pc[c] \in {"leaf", "group", "rules", "topo", "commit"}
    \/ pc[c] = "except" /\ path[c] \in {"leaf", "group", "rules", "commit"}

\* C19: at every point a call of sync_all can be cut short, its session shows
\* the order of the phases: no entity row has been deleted while an
\* association row is left, no group row exists before every leaf address and
\* service row, no membership row before every group row, no rule row before
\* every group row and every membership row, and every association row names
\* rows that exist.
C19_PhaseOrder ==
    \A c \in Callers :
        LET db == sess[c].db
            S == snap[c]
        IN  /\ NoDangling(db)
            /\ (pc[c] = "except" /\ path[c] = "wipe"
                    /\ <<db.rule, db.addr, db.svc>> # <<store.rule, store.addr, store.svc>>)
                  => LinkRows(db) = 0
            /\ Building(c) =>
                  /\ (\E o \in db.addr : o.is_group) => AllLeaves(db, S)
                  /\ db.agm # EmptyBag => AllGroups(db, S)
                  /\ db.rule # {} =>
                        /\ AllLeaves(db, S) /\ AllGroups(db, S)
                        /\ NameView(db).agm = ExpectedPairs(S)

\* a call was cut short in phase 1 after it deleted the rules of a store that
\* held rules, addresses and links: the links are gone, the addresses are not
C19_Witness ==
    /\ pc["worker"] = "except" /\ path["worker"] = "wipe"
    /\ store.rule # {} /\ LinkRows(store) > 0
    /\ sess["worker"].db.rule = {} /\ sess["worker"].db.addr = store.addr
    /\ store.addr # {} /\ LinkRows(sess["worker"].db) = 0

\* no two rows of a table have names equal ignoring case
UniqueIgnoringCase(tbl) == \A a, b \in tbl : Lower(a.name) = Lower(b.name) => a = b

\* the first record of a name in a list
FirstNamed(list, n) == list[CHOOSE i \in DOMAIN list : Winner(list, i) /\ NameOf(list[i]) = n]

\* C20: the store a successful sync_all(S) leaves has no two address rows,
\* service rows or rule rows with names equal ignoring case and no row with
\* an empty name; the rows are those of the first record of each name, with
\* that record's name and value; a group record named like an address or like
\* an earlier group has no row, and the membership rows are those of the
\* groups that have a row.
C20_UniqueNamesAfterResync ==
    okHist # <<>> =>
        LET S == okHist[Len(okHist)].snap
        IN  /\ UniqueIgnoringCase(store.addr)
            /\ UniqueIgnoringCase(store.svc)
            /\ UniqueIgnoringCase(store.rule)
            /\ \A o \in store.addr \cup store.svc \cup store.rule : o.name # ""
            /\ {o.name : o \in {x \in store.addr : ~x.is_group}} = WinnerNames(S.address)
            /\ \A o \in store.addr :
                  ~o.is_group => o.value = AddressValue(FirstNamed(S.address, o.name))
            /\ {o.name : o \in store.svc} = WinnerNames(S.service)
            /\ \A o \in store.svc :
                  o.port = PyStr(Or(Get(FirstNamed(S.service, o.name), "destination-port"),
                                    Str("any")))
            /\ {o.name : o \in store.rule} = WinnerNames(S.rules)
            /\ {o.name : o \in {x \in store.addr : x.is_group}} = GroupNames(S)
            /\ NameView(store).agm = ExpectedPairs(S)

\* a resync of a configuration that names n1 twice as an address, once more
\* as a group, and g1 twice as a group has succeeded: one row n1 with the
\* first value, one group g1 with the members of its first record
C20_Witness ==
    /\ okHist # <<>> /\ ret["worker"] = "true"
    /\ \E o \in store.addr : o.name = "n1" /\ o.value = "10.1.1.1" /\ ~o.is_group
    /\ ~\E o \in store.addr : o.name \in {"N1", "G1", ""}
    /\ \E o \in store.addr : o.name = "g1" /\ o.is_group
    /\ NameView(store).agm = {<<"g1", "g2">>, <<"g1", "n1">>, <<"g2", "n1">>}
    /\ {o.name : o \in store.rule} = {"r1", "r0"}

-----------------------------------------------------------------------------
(* Properties of names across resyncs and approvals *)

\* C21: after any sequence of resyncs and object approvals run one at a time,
\* no two address rows and no two service rows have names equal ignoring case.
C21_NoNamesEqualIgnoringCase ==
    UniqueIgnoringCase(store.addr) /\ UniqueIgnoringCase(store.svc)

-----------------------------------------------------------------------------
(* Properties of the references a configuration leaves unresolved *)

\* no list of references of a rule record is None
ListsPresent(S) ==
    \A i \in DOMAIN S.rules :
        \A key \in {"source", "destination", "service"} : ~RefRaises(S.rules[i], key)

\* the pairs, by name, that the rule records ask for under a key, among the
\* names that have a row
RulePairs(S, key, names) ==
    {p \in WinnerNames(S.rules) \X names :
        \E m \in RefSet(FirstNamed(S.rules, p[1]), key) : Lower(m) = Lower(p[2])}

\* C22: a configuration whose records name objects it does not hold, or lack
\* a name or a zone list, does not make the rule phase raise; once its resync
\* has succeeded the call returns true, every association table holds one
\* row for each reference that resolves, none for the others, and every row
\* names rows that exist.
C22_DropUnmatched ==
    \A c \in Callers :
        LET S == snap[c]
            addrs == {o.name : o \in store.addr}
            svcs == {o.name : o \in store.svc}
        IN  ListsPresent(S) =>
              /\ pc[c] = "rules" =>
                    ~sync_security_rules(sess[c].db, S.rules, Len(S.rules),
                                         sess[c].addr_map, sess[c].svc_map).err
              /\ (pc[c] = "back" /\ path[c] = "ok" /\ entry[c].clean) =>
                    /\ ret[c] = "true"
                    /\ NoDangling(store)
                    /\ NameView(store).agm = ExpectedPairs(S)
                    /\ NameView(store).rsm = RulePairs(S, "source", addrs)
                    /\ NameView(store).rdm = RulePairs(S, "destination", addrs)
                    /\ NameView(store).rvm = RulePairs(S, "service", svcs)
                    /\ NoDuplicate(store.agm) /\ NoDuplicate(store.rsm)
                    /\ NoDuplicate(store.rdm) /\ NoDuplicate(store.rvm)

-----------------------------------------------------------------------------
(* Properties of the rows of groups *)

\* C23: in the store a successful sync_all leaves, every address row that is
\* a group has the value "group", and the parent of every membership row is
\* a row that is a group, never a leaf.
C23_GroupRepresentation ==
    okHist # <<>> =>
        /\ \A o \in store.addr : o.is_group => o.value = "group"
        /\ \A r \in BagToSet(store.agm) :
              \E o \in store.addr : o.id = r.parent_id /\ o.is_group
        /\ ~\E r \in BagToSet(store.agm) :
              \E o \in store.addr : o.id = r.parent_id /\ ~o.is_group

\* a resync has succeeded on a configuration with a group record named like
\* the address n1 and with members: n1 is a leaf with its own value, the
\* groups g1 and g2 are parents, and g2 is a member as well
C23_Witness ==
    /\ okHist # <<>> /\ ret["worker"] = "true" /\ pc["worker"] = "back"
    /\ \E o \in store.addr : o.name = "n1" /\ ~o.is_group /\ o.value = "10.1.1.1"
    /\ \E g \in store.addr, m \in store.addr :
          /\ g.is_group /\ m.is_group /\ g.value = "group"
          /\ [parent_id |-> g.id, member_id |-> m.id] \in BagToSet(store.agm)
    /\ \E i \in DOMAIN okHist[1].snap.address_group :
          NameOf(okHist[1].snap.address_group[i]) = "N1"

-----------------------------------------------------------------------------
(* Properties of the time of the last resync *)

\* C24: the time of the last resync changes only in the step that follows a
\* commit, the step in which the call returns true; a call that has returned
\* true has recorded the time of its own run, and a call that was skipped or
\* has failed has left the time of an earlier run.
C24_StampOnlyAfterCommit ==
    [][/\ last_sync_time' # last_sync_time =>
              \E c \in Callers :
                  /\ pc[c] = "stamp" /\ path[c] = "ok" /\ store = sess[c].db
                  /\ pc'[c] = "finally" /\ ret'[c] = "true"
       /\ \A c \in Callers :
              (pc[c] # "back" /\ pc'[c] = "back") =>
                  (ret'[c] = "true" <=> last_sync_time' = Now')]_vars

\* a call has failed and returned false after an earlier call succeeded: the
\* time recorded is that of the earlier call
C24_Witness ==
    /\ pc["worker"] = "back" /\ ret["worker"] = "false" /\ Failed("worker")
    /\ last_sync_time > 0 /\ last_sync_time < Now

-----------------------------------------------------------------------------
(* Properties of the topology cache *)

\* the zone members whose interface has a subnet
BoundMembers(topo) == {i \in DOMAIN topo.zones : topo.zones[i].member \in DOMAIN topo.iface_map}

\* the row of a zone member, without its id
IfaceRow(topo, i) ==
    [name |-> topo.zones[i].member, subnet |-> topo.iface_map[topo.zones[i].member],
     zone_name |-> topo.zones[i].name]

\* C25: after a sync_all that returned true the interface table holds one
\* row for each zone member whose interface has a subnet in the data this
\* call fetched, and no other row; after a call that failed in phases 1 to 4
\* the table is what it was when the call started.
C25_TopologyRebuilt ==
    \A c \in Callers :
        /\ (pc[c] = "back" /\ path[c] = "ok" /\ entry[c].clean) =>
              LET topo == entry[c].fetched
              IN  /\ ret[c] = "true"
                  /\ {[name |-> x.name, subnet |-> x.subnet, zone_name |-> x.zone_name] :
                          x \in store.iface}
                        = {IfaceRow(topo, i) : i \in BoundMembers(topo)}
                  /\ Cardinality(store.iface) = Cardinality(BoundMembers(topo))
        /\ (pc[c] = "back" /\ path[c] \in {"wipe", "leaf", "group", "rules"}
                /\ entry[c].clean) =>
              store.iface = entry[c].store.iface

\* a call has returned true over a store whose interface table held the row
\* of eth1: the table holds the two rows of eth2 that this call fetched
C25_Witness ==
    /\ pc["worker"] = "back" /\ path["worker"] = "ok" /\ ret["worker"] = "true"
    /\ \E x \in entry["worker"].store.iface : x.name = "eth1"
    /\ {x.name : x \in store.iface} = {"eth2"} /\ Cardinality(store.iface) = 2

-----------------------------------------------------------------------------
(* Properties of the stored rules *)

\* the zone of a record: the first element of its first non-empty zone
\* field if that is a list, "any" if it has none or if it is not a list
ZoneOf(item, keys) ==
    LET S == {i \in DOMAIN keys : NonEmpty(item, keys[i])}
        x == item[keys[CHOOSE i \in S : \A j \in S : i <= j]]
    IN  IF S = {} THEN "any" ELSE IF x.t = "list" THEN x.v[1] ELSE "any"

\* C26: the zones stored for a rule record are the first element of its zone
\* list (fromzone before from, tozone before to) and "any" when it has no
\* such list or an empty one; its action is the record's action, "allow"
\* when the record has none.
C26_RuleDefaults ==
    \A fw_config \in pool :
        \A o \in store.rule :
            LET item == RecordOf(fw_config.rules, o.name)
            IN  /\ o.from_zone = ZoneOf(item, <<"fromzone", "from">>)
                /\ o.to_zone = ZoneOf(item, <<"tozone", "to">>)
                /\ o.action = IF "action" \in DOMAIN item THEN PyStr(item.action)
                               ELSE "allow"

\* the six rule records were stored: one without zones or action, one with
\* lists of two zones, one whose first zone key holds an empty list
C26_Witness ==
    /\ Cardinality(store.rule) = 6
    /\ \E o \in store.rule :
          o.name = "q1" /\ o.from_zone = "any" /\ o.to_zone = "any" /\ o.action = "allow"
    /\ \E o \in store.rule :
          o.name = "q2" /\ o.from_zone = "trust" /\ o.to_zone = "dmz" /\ o.action = "deny"
    /\ \E o \in store.rule : o.name = "q3" /\ o.from_zone = "dmz" /\ o.to_zone = "any"

-----------------------------------------------------------------------------
(* Properties of the resolver on rebuilt inventories *)

\* C27: on the inventory a resync has committed, the resolver comes to an
\* end on every address row: its recursion never goes deeper than the table
\* has rows.
C27_ResolverTerminates ==
    \A o \in store.addr : ~resolve_object_content(store, "addr", o.id).err

-----------------------------------------------------------------------------
(* Properties of the periodic worker *)

\* a step in which a fetch, a phase or a commit raises
FailStep ==
    \E c \in Callers :
        \/ pc[c] # "except" /\ pc'[c] = "except"
        \/ pc[c] = "idle" /\ path'[c] = "fetch"

\* C28: the worker begins a pass again and again, whatever the passes
\* before it returned or raised; and if from some point on nothing raises,
\* resyncs are committed again and again.
C28_PeriodicRetry ==
    /\ []<><<Iterate("worker")>>_vars
    /\ (<>[][~FailStep]_vars) => []<>(\E c \in Callers : pc[c] = "stamp")

\* the worker has begun a pass after an earlier resync that succeeded and
\* later passes that did not
C28_Witness ==
    /\ pc["worker"] = "check" /\ calls = MaxCalls /\ last_sync_time > 0
    /\ last_sync_time < calls - 1

-----------------------------------------------------------------------------
(* Properties of the requests *)

\* source, destination and port of a rule request
Triple(r) == <<r.source_ip, r.destination_ip, r.service_port>>

\* C29: whatever rule requests are created, edited, approved and rejected,
\* no two pending RuleRequests have the same source, destination and port.
C29_NoDuplicatePendingRules ==
    \A i, j \in DOMAIN reqs.rule :
        (/\ i # j
         /\ reqs.rule[i].status = "Pending"
         /\ reqs.rule[j].status = "Pending") =>
            Triple(reqs.rule[i]) # Triple(reqs.rule[j])

\* the request is one of the table after the step, its status moved from
\* Pending to Approved or Rejected if it moved at all, and nothing of it
\* changed once it was Approved or Rejected
OneWay(old, new) ==
    \A id \in DOMAIN old :
        /\ id \in DOMAIN new
        /\ new[id].status # old[id].status =>
               old[id].status = "Pending" /\ new[id].status \in {"Approved", "Rejected"}
        /\ old[id].status # "Pending" => new[id] = old[id]

\* C30: a request moves from Pending to Approved or from Pending to Rejected
\* and nowhere else; once it is Approved or Rejected no approval, rejection
\* or edit changes its status, its fields or its admin notes.
C30_StatusOneWay ==
    [][OneWay(reqs.obj, reqs'.obj) /\ OneWay(reqs.rule, reqs'.rule)]_vars

-----------------------------------------------------------------------------
(* Properties of the device calls of approvals *)

\* the requests of a table whose status becomes Approved in the step
Approving(old, new) ==
    {id \in DOMAIN old : old[id].status # "Approved" /\ new[id].status = "Approved"}

\* C31: a request becomes Approved only in an approval call of that request
\* in which the device create call was made and succeeded, whatever the
\* type of the request.
C31_ApprovedImpliesCreated ==
    [][/\ \A id \in Approving(reqs.obj, reqs'.obj) :
              appr'.op = "approve_object" /\ appr'.id = id /\ appr'.device = "ok"
       /\ \A id \in Approving(reqs.rule, reqs'.rule) :
              appr'.op = "approve_single_rule" /\ appr'.id = id /\ appr'.device = "ok"]_vars

-----------------------------------------------------------------------------
(* Properties of approvals side by side *)

\* the number of entries of a sequence that satisfy a test
CountIf(q, Test(_)) == Cardinality({i \in DOMAIN q : Test(q[i])})

\* C32: however two approvals of one pending object request interleave, the
\* device creates the object at most once, at most one inventory row of its
\* name is committed, and at most one approval audit row is written for it.
C32_AtMostOnceApproval ==
    /\ \A id \in DOMAIN reqs.obj :
          LET Created(d) == d.id = id /\ d.ok
              n == reqs.obj[id].name
          IN  /\ CountIf(approving.device, Created) <= 1
              /\ Cardinality({o \in store.addr : o.name = n}) <= 1
              /\ Cardinality({o \in store.svc : o.name = n}) <= 1
    /\ LET Approval(a) == a.action = "APPROVE_OBJECT"
           IsApproved(r) == r.status = "Approved"
       IN  CountIf(reqs.audit, Approval) <= CountIf(reqs.obj, IsApproved)

-----------------------------------------------------------------------------
(* Properties of the policy match *)

\* the ids of the groups that hold one of the ids, directly or through groups
RECURSIVE Above(_, _, _)
Above(db, ids, n) ==
    IF n = 0 THEN {}
    ELSE LET up == {q.parent_id : q \in {x \in BagToSet(db.agm) : x.member_id \in ids}}
         IN  up \cup Above(db, ids \cup up, n - 1)

\* the rows whose name, case ignored, or value is x
Matching(db, x) == {o \in db.addr : Lower(o.name) = Lower(x) \/ o.value = x}

\* the names related to x: those of the matching rows and of every group
\* that holds one of them at any depth; x itself when nothing matches
Related(db, x) ==
    LET ids == {o.id : o \in Matching(db, x)}
        groups == {g \in db.addr : g.id \in Above(db, ids, Cardinality(db.addr))}
    IN  IF x = "" \/ Lower(x) = "any" THEN {"any"}
        ELSE IF ids = {} THEN {x}
        ELSE {o.name : o \in Matching(db, x)} \cup {g.name : g \in groups}

\* C33: the reverse lookup of x returns the names of all rows whose name,
\* case ignored, or value is x and of every group that holds one of them,
\* directly or through nested groups; [x] when nothing matches and ["any"]
\* for an empty input or "any".
C33_ReverseLookupComplete ==
    look.op = "get_all_relevant_names" => look.out = Related(store, look.input)

\* the collection is unrestricted or holds an object related to the address
Covers(db, link, rule_id, x) ==
    \/ Collection(link, rule_id) = {}
    \/ NamesOf(db.addr, link, rule_id) \cap Related(db, x) # {}

\* the rules of the requested zones that allow the traffic of a body
Allowing(db, data) ==
    {r \in db.rule :
        /\ InZones(r, data)
        /\ Covers(db, db.rsm, r.id, data.source_ip)
        /\ Covers(db, db.rdm, r.id, data.destination_ip)
        /\ \/ Ports(db, r.id) = {}
           \/ data.service_port \in Ports(db, r.id)
           \/ "any" \in Ports(db, r.id)}

\* C34: for a request with a source and a destination, check_shadow answers
\* "shadowed" whenever a rule of the requested zones allows the traffic, its
\* sources and destinations being unrestricted or holding an object related
\* to the requested address and its services being empty, holding the port
\* or holding "any"; it answers "clear" only when there is no such rule.
C34_ShadowCoversUnrestricted ==
    (/\ look.op = "check_shadow"
     /\ look.input.source_ip # ""
     /\ look.input.destination_ip # "") =>
        (look.out.status = "shadowed" <=> Allowing(store, look.input) # {})

-----------------------------------------------------------------------------
(* Properties of the routes of administrators *)

\* the sessions of administrators: the flag is set or the role is 'admin'
Administrators == {s \in Sessions : s.is_admin \/ s.user = UserDict("admin")}

\* the step is a call of one of the seven routes by the caller of the session
Calls(session) ==
    \/ \E id \in DOMAIN reqs.obj : route_approve_object(session, id)
    \/ \E id \in DOMAIN reqs.obj : route_reject_object(session, id, AdminBodies.reject)
    \/ \E id \in DOMAIN reqs.obj : route_update_pending_object(session, id, AdminBodies.object)
    \/ \E id \in DOMAIN reqs.rule : route_approve_single_rule(session, id)
    \/ \E id \in DOMAIN reqs.rule : route_reject_single_rule(session, id, AdminBodies.reject)
    \/ \E id \in DOMAIN reqs.rule : route_update_pending_rule(session, id, AdminBodies.rule)
    \/ trigger_firewall_sync(session)

\* C35: a call of approve_object, reject_object, update_pending_object,
\* approve_single_rule, reject_single_rule, update_pending_rule or
\* trigger_firewall_sync by a caller who is not an administrator is answered
\* with an authorization error, makes no device call and leaves the store,
\* the requests and the busy flag as they were.
C35_AdminOnly ==
    [][\A session \in Sessions \ Administrators :
           Calls(session) =>
               /\ appr'.code = 403 /\ appr'.device = "none"
               /\ UNCHANGED <<store, reqs, sync_lock, snap, calls, last_sync_time>>]_vars

\* a caller who is not an administrator was refused the rejection of a
\* request that an administrator had approved
C35_Witness ==
    /\ appr.code = 403 /\ appr.op = "reject_object"
    /\ \E id \in DOMAIN reqs.obj : appr.id = id /\ reqs.obj[id].status = "Approved"

====
